---- MODULE Spec2Model ----
(***************************************************************************)
(* The scope graph of the project analysis engine: Scope (src/src/Scope.ts)*)
(* and XmlScope (src/unnamed/part_001), driven by the Program's file-added *)
(* and file-removed events.  Program, XmlFile and the dependency graph are *)
(* not part of the sources at hand; they are modelled from spec.md (4.2,   *)
(* 4.3, 4.7, 5).                                                           *)
(*                                                                         *)
(* Every handler is a pure operator on a state record st, so that a whole  *)
(* mutating call (with the events it emits synchronously) is one action.   *)
(***************************************************************************)
EXTENDS Integers, Sequences, FiniteSets, TLC

(***************************************************************************)
(* The project: four descriptor files and two code files.                  *)
(*   x1  component "A" extends "a"   imports b1, lib                       *)
(*   x2  component "B" extends "A"   imports b1, b2, lib, and has a script *)
(*                                   tag whose path is blank               *)
(*   x3  component "C" extends "B"   imports lib                           *)
(*   x4  component "a" extends "A"   imports B2 (letter case differs)      *)
(* x1 and x4 extend each other; x3 -> x2 -> x1 is a chain of depth two.    *)
(* No file of the project has the package path lib, so an import of lib    *)
(* makes no file a member of a scope.                                      *)
(***************************************************************************)
XmlIds == {"x1", "x2", "x3", "x4"}

BrsIds == {"b1", "b2"}

FileIds == XmlIds \cup BrsIds

Platform == "platform"

NoScope == "undefined"

NoFile == "null"

ScopeIds == XmlIds

AllScopes == ScopeIds \cup {Platform}

\* the depth at which the call stack of the runtime is exhausted
MaxStack == 16

\* the number of calls made in one run
MaxSteps == 5

ComponentName(x) ==
  CASE x = "x1" -> "A"
    [] x = "x2" -> "B"
    [] x = "x3" -> "C"
    [] x = "x4" -> "a"
    [] OTHER -> ""

ParentName(x) ==
  CASE x = "x1" -> "a"
    [] x = "x2" -> "A"
    [] x = "x3" -> "B"
    [] x = "x4" -> "A"
    [] OTHER -> ""

\* scriptTagImports: pkgPath as written in the descriptor, and the tag's text
ScriptTagImports(x) ==
  CASE x = "x1" -> << [pkgPath |-> "b1", text |-> "b1"],
                      [pkgPath |-> "lib", text |-> "lib"] >>
    [] x = "x2" -> << [pkgPath |-> "b1", text |-> "b1"],
                      [pkgPath |-> "b2", text |-> "b2"],
                      [pkgPath |-> "lib", text |-> "lib"],
                      [pkgPath |-> "", text |-> " "] >>
    [] x = "x3" -> << [pkgPath |-> "lib", text |-> "lib"] >>
    [] x = "x4" -> << [pkgPath |-> "B2", text |-> "B2"] >>
    [] OTHER -> << >>

\* String.prototype.toLowerCase on the strings of the project
ToLowerCase(s) ==
  CASE s = "A" -> "a"
    [] s = "B" -> "b"
    [] s = "C" -> "c"
    [] s = "B1" -> "b1"
    [] s = "B2" -> "b2"
    [] s = "Foo" -> "foo"
    [] s = "Init" -> "init"
    [] s = "NameA" -> "namea"
    [] s = "NameB" -> "nameb"
    [] s = "NAMEB" -> "nameb"
    [] s = "NameC" -> "namec"
    [] s = "Name" -> "name"
    [] s = "NAME" -> "name"
    [] s = "Klass" -> "klass"
    [] s = "Animal" -> "animal"
    [] s = "Fn" -> "fn"
    [] s = "Other" -> "other"
    [] s = "Deep" -> "deep"
    [] OTHER -> s

\* String.prototype.trim on the strings of the project
Trim(s) == IF s = " " THEN "" ELSE s

\* pkgPath and pathAbsolute of a file of the project are its id
PkgPath(f) == f

(***************************************************************************)
(* Sequence helpers                                                        *)
(***************************************************************************)
Range(s) == {s[i] : i \in 1..Len(s)}

Without(s, e) == SelectSeq(s, LAMBDA y : y # e)

RECURSIVE FoldL(_, _, _)
FoldL(Op(_, _), acc, s) ==
  IF s = << >> THEN acc ELSE FoldL(Op, Op(acc, Head(s)), Tail(s))

(***************************************************************************)
(* State                                                                   *)
(***************************************************************************)
VARIABLES
  progFiles,    \* Program.files, in insertion order
  scopeOrder,   \* the scopes whose program listeners are connected, in registration order
  status,       \* per descriptor scope: "none", "live" (registered) or "disposed"
  isValidated,  \* Scope._isValidated
  files,        \* Scope.files, in insertion order of the keys
  parentScope,  \* Scope.parentScope
  handle,       \* Scope.parentScopeHandles: the one listener the scope can disconnect
  listeners,    \* listeners[p][c]: callbacks of c on the 'invalidated' event of p
  xmlParent,    \* XmlFile.parent
  xmlHandles,   \* XmlScope.xmlFileHandles are connected
  diagnostics,  \* Scope.diagnostics
  emitted,      \* the scopes that emitted 'invalidated' during the last call
  changed,      \* the scopes that gained, replaced or lost a member file during the last call
  lookups,      \* Scope._namespaceLookup and Scope._classLookup (built or deleted)
  lastCall,     \* the last call made on the program or on a scope, how it ended, and
                \* the steps of validation it took, in order
  steps,        \* the number of calls made so far
  tokens,       \* the token list handed to Parser.parse
  parsed        \* what Parser.parse returned for it

vars == << progFiles, scopeOrder, status, isValidated, files, parentScope, handle,
           listeners, xmlParent, xmlHandles, diagnostics, lookups, emitted, changed,
           lastCall, steps, tokens, parsed >>

NoHandle == [parent |-> NoScope, connected |-> FALSE]

\* a lookup that was deleted and is rebuilt by the next read
NoLookup == [built |-> FALSE, val |-> << >>]

NoCall ==
  [op |-> "none", scope |-> NoScope, file |-> NoFile, force |-> FALSE,
   threw |-> FALSE, trace |-> << >>]

Cur ==
  [ progFiles |-> progFiles, scopeOrder |-> scopeOrder, status |-> status,
    isValidated |-> isValidated, files |-> files, parentScope |-> parentScope,
    handle |-> handle, listeners |-> listeners, xmlParent |-> xmlParent,
    xmlHandles |-> xmlHandles, diagnostics |-> diagnostics, lookups |-> lookups,
    emitted |-> {}, changed |-> {}, threw |-> FALSE, trace |-> << >> ]

InitState ==
  [ progFiles |-> << >>,
    scopeOrder |-> << Platform >>,
    status |-> [s \in ScopeIds |-> "none"],
    isValidated |-> [s \in AllScopes |-> FALSE],
    files |-> [s \in AllScopes |-> IF s = Platform THEN << "global" >> ELSE << >>],
    parentScope |-> [s \in AllScopes |-> NoScope],
    handle |-> [s \in AllScopes |-> NoHandle],
    listeners |-> [p \in AllScopes |-> [c \in AllScopes |-> 0]],
    xmlParent |-> [x \in XmlIds |-> NoFile],
    xmlHandles |-> [s \in ScopeIds |-> FALSE],
    diagnostics |-> [s \in AllScopes |-> << >>],
    lookups |-> [s \in AllScopes |-> [ns |-> NoLookup, cls |-> NoLookup]],
    emitted |-> {}, changed |-> {}, threw |-> FALSE, trace |-> << >> ]

(***************************************************************************)
(* XmlFile (spec.md 4.2): the resolved parents and what they import        *)
(***************************************************************************)
\* the resolved ancestors of descriptor x, parents first; a descriptor met a
\* second time ends the walk
RECURSIVE AncestorWalk(_, _, _)
AncestorWalk(st, cur, seen) ==
  IF cur = NoFile \/ cur \in seen
    THEN << >>
    ELSE << cur >> \o AncestorWalk(st, st.xmlParent[cur], seen \cup {cur})

XmlAncestors(st, x) == AncestorWalk(st, st.xmlParent[x], {})

\* XmlFile.getAncestorScriptTagImports: the imports of all resolved parents,
\* parents first, each with the descriptor it comes from
GetAncestorScriptTagImports(st, x) ==
  FoldL(LAMBDA acc, a :
          acc \o [i \in 1..Len(ScriptTagImports(a)) |->
                    [pkgPath |-> ScriptTagImports(a)[i].pkgPath, sourceFile |-> a]],
        << >>, XmlAncestors(st, x))

\* XmlFile.doesReferenceFile
DoesReferenceFile(st, x, f) ==
  \/ f = x
  \/ \E i \in 1..Len(ScriptTagImports(x)) :
       ToLowerCase(ScriptTagImports(x)[i].pkgPath) = ToLowerCase(PkgPath(f))
  \/ \E i \in 1..Len(GetAncestorScriptTagImports(st, x)) :
       ToLowerCase(GetAncestorScriptTagImports(st, x)[i].pkgPath) = ToLowerCase(PkgPath(f))

(***************************************************************************)
(* Scope (src/src/Scope.ts)                                                *)
(***************************************************************************)
\* the matcher the scope was constructed with
Matcher(st, s, f) == IF s = Platform THEN FALSE ELSE DoesReferenceFile(st, s, f)

HasFile(st, s, f) == f \in Range(st.files[s])

\* variant: the setter keeps the lookups
SetIsValidatedKeepsLookups(st, s, v) == [st EXCEPT !.isValidated[s] = v]

\* the isValidated setter: stores the value and deletes both lookups
SetIsValidated(st, s, v) ==
  [st EXCEPT !.isValidated[s] = v,
             !.lookups[s] = [ns |-> NoLookup, cls |-> NoLookup]]

\* Scope.emit('invalidated'): every connected listener marks its scope dirty
EmitInvalidated(st, p) ==
  LET heard == << Platform, "x1", "x2", "x3", "x4" >> IN
  [FoldL(LAMBDA acc, c :
           IF acc.listeners[p][c] > 0 THEN SetIsValidated(acc, c, FALSE) ELSE acc,
         st, heard)
     EXCEPT !.emitted = @ \cup {p}]

RemoveFile(st, s, f) ==
  LET st1 == SetIsValidated(st, s, FALSE) IN
  IF ~HasFile(st1, s, f)
    THEN st1
    ELSE EmitInvalidated([st1 EXCEPT !.files[s] = Without(@, f),
                                     !.changed = @ \cup {s}], s)

AddOrReplaceFile(st, s, f) ==
  LET st1 == SetIsValidated(st, s, FALSE)
      st2 == IF HasFile(st1, s, f) THEN RemoveFile(st1, s, f) ELSE st1
  IN  [st2 EXCEPT !.files[s] = Append(@, f), !.changed = @ \cup {s}]

\* variant: the parent is recorded but its 'invalidated' event is not listened to
AttachParentScopeUnsubscribed(st, s, p) ==
  LET st1 == [st EXCEPT !.parentScope[s] = p,
                        !.handle[s] = [parent |-> p, connected |-> FALSE]]
  IN  IF ~st1.isValidated[p] THEN SetIsValidated(st1, s, FALSE) ELSE st1

\* the handle of the previous parent is overwritten, not called
AttachParentScope(st, s, p) ==
  LET st1 == [st EXCEPT !.parentScope[s] = p,
                        !.handle[s] = [parent |-> p, connected |-> TRUE],
                        !.listeners[p][s] = @ + 1]
  IN  IF ~st1.isValidated[p] THEN SetIsValidated(st1, s, FALSE) ELSE st1

\* calling a handle removes its listener if it is still connected
Disconnect(st, s) ==
  IF st.handle[s].connected
    THEN [st EXCEPT !.listeners[st.handle[s].parent][s] = @ - 1,
                    !.handle[s].connected = FALSE]
    ELSE st

DetachParent(st, s) ==
  LET st1 == Disconnect(st, s) IN
  IF s # Platform THEN [st1 EXCEPT !.parentScope[s] = Platform] ELSE st1

\* the 'file-added' listener of Scope.attachProgram
OnFileAdded(st, s, f) ==
  IF Matcher(st, s, f) THEN AddOrReplaceFile(st, s, f) ELSE st

\* the 'file-removed' listener of Scope.attachProgram
OnFileRemoved(st, s, f) ==
  IF HasFile(st, s, f) THEN RemoveFile(st, s, f) ELSE st

ScopeAttachProgram(st, s) ==
  FoldL(LAMBDA acc, f : OnFileAdded(acc, s, f),
        [st EXCEPT !.scopeOrder = Append(@, s)], st.progFiles)

(***************************************************************************)
(* XmlScope (src/unnamed/part_001)                                         *)
(***************************************************************************)
\* variant: the scope of the parent is never found
HandleXmlFileParentAttachNotFound(st, s, pf) == st

\* program.getScopeByName(file.pkgPath), then attachParentScope
HandleXmlFileParentAttach(st, s, pf) ==
  IF st.status[pf] = "live" THEN AttachParentScope(st, s, pf) ELSE st

\* XmlFile.attachParent: sets the parent, emits 'attach-parent'
XmlFileAttachParent(st, x, pf) ==
  LET st1 == [st EXCEPT !.xmlParent[x] = pf] IN
  IF st1.xmlHandles[x] THEN HandleXmlFileParentAttach(st1, x, pf) ELSE st1

\* XmlFile.detachParent: clears the parent, emits 'detach-parent'
XmlFileDetachParent(st, x) ==
  LET st1 == [st EXCEPT !.xmlParent[x] = NoFile] IN
  IF st1.xmlHandles[x] THEN DetachParent(st1, x) ELSE st1

AddParentIfMatch(st, s, f) ==
  IF /\ st.xmlParent[s] = NoFile
     /\ ParentName(s) # ""
     /\ f \in XmlIds
     /\ ComponentName(f) = ParentName(s)
    THEN XmlFileAttachParent(SetIsValidated(st, s, FALSE), s, f)
    ELSE st

\* variant: the scope link is cut but the descriptor keeps its parent
OnProgramFileRemoveKeepsXmlParent(st, s, f) ==
  IF /\ f \in XmlIds
     /\ ComponentName(f) # ""
     /\ ParentName(s) # ""
     /\ ToLowerCase(ComponentName(f)) = ToLowerCase(ParentName(s))
    THEN DetachParent(SetIsValidated(st, s, FALSE), s)
    ELSE st

OnProgramFileRemove(st, s, f) ==
  IF /\ f \in XmlIds
     /\ ComponentName(f) # ""
     /\ ParentName(s) # ""
     /\ ToLowerCase(ComponentName(f)) = ToLowerCase(ParentName(s))
    THEN DetachParent(XmlFileDetachParent(SetIsValidated(st, s, FALSE), s), s)
    ELSE st

\* the listener on dependencyGraph.onchange(xmlFile.pkgPath)
OnDependencyChange(st, s) == SetIsValidated(st, s, FALSE)

XmlScopeAttachProgram(st, s) ==
  LET st1 == ScopeAttachProgram(st, s)
      st2 == FoldL(LAMBDA acc, f : AddParentIfMatch(acc, s, f), st1, st1.progFiles)
  IN  IF st2.xmlParent[s] # NoFile
        THEN HandleXmlFileParentAttach(st2, s, st2.xmlParent[s])
        ELSE st2

\* Scope.dispose: the program handles (the graph subscription is one of them)
ScopeDispose(st, s) ==
  DetachParent([st EXCEPT !.scopeOrder = Without(@, s)], s)

XmlScopeDispose(st, s) ==
  [ScopeDispose(st, s) EXCEPT !.xmlHandles[s] = FALSE]

(***************************************************************************)
(* File contents (fixed): callables, call sites, local variables           *)
(***************************************************************************)
PlatformFile == "global"

\* a callable: its name and, per parameter, whether it is optional
Callables(f) ==
  CASE f = "b1" -> << [name |-> "init", params |-> << >>],
                      [name |-> "foo", params |-> << FALSE, TRUE >>],
                      [name |-> "bar", params |-> << FALSE, FALSE, TRUE >>] >>
    [] f = "b2" -> << [name |-> "Foo", params |-> << >>],
                      [name |-> "len", params |-> << FALSE >>] >>
    [] f = PlatformFile -> << [name |-> "len", params |-> << FALSE >>] >>
    [] OTHER -> << >>

\* a call: callee name, number of arguments, and whether the function scope
\* at the call has a variable of that name
FunctionCalls(f) ==
  CASE f = "b1" -> << [name |-> "Foo", args |-> 3, localVar |-> FALSE],
                      [name |-> "missing", args |-> 0, localVar |-> FALSE] >>
    [] f = "b2" -> << [name |-> "foo", args |-> 1, localVar |-> TRUE],
                      [name |-> "len", args |-> 1, localVar |-> FALSE],
                      [name |-> "bar", args |-> 1, localVar |-> FALSE],
                      [name |-> "cb", args |-> 0, localVar |-> TRUE],
                      [name |-> "Foo", args |-> 0, localVar |-> FALSE] >>
    [] OTHER -> << >>

\* the variable declarations of the function scopes of a file
VariableDeclarations(f) ==
  CASE f = "b1" -> << [name |-> "len", isFunction |-> TRUE],
                      [name |-> "Foo", isFunction |-> FALSE] >>
    [] f = "b2" -> << [name |-> "init", isFunction |-> TRUE],
                      [name |-> "other", isFunction |-> FALSE],
                      [name |-> "len", isFunction |-> FALSE] >>
    [] OTHER -> << >>

\* parser.namespaceStatements: the dotted name as its parts, and the classes
\* and functions of the body
NamespaceStatements(f) ==
  CASE f = "b1" -> << [name |-> << "NameA", "NameB" >>,
                       body |-> << [kind |-> "class", name |-> "Klass", file |-> "b1"],
                                   [kind |-> "function", name |-> "Fn", file |-> "b1"] >>] >>
    [] f = "b2" -> << [name |-> << "namea" >>,
                       body |-> << [kind |-> "function", name |-> "Other", file |-> "b2"] >>],
                      [name |-> << "NameA", "NameB" >>,
                       body |-> << [kind |-> "function", name |-> "fn", file |-> "b2"] >>],
                      [name |-> << "namea", "NAMEB", "NameC" >>,
                       body |-> << [kind |-> "function", name |-> "Deep", file |-> "b2"] >>] >>
    [] OTHER -> << >>

\* parser.classStatements: every class of the file, with its full name
ClassStatements(f) ==
  CASE f = "b1" -> << [name |-> << "NameA", "NameB", "Klass" >>, file |-> "b1"] >>
    [] f = "b2" -> << [name |-> << "Animal" >>, file |-> "b2"],
                      [name |-> << "namea", "nameb", "klass" >>, file |-> "b2"] >>
    [] OTHER -> << >>

\* platformCallableMap[lowerName]
IsPlatformCallable(lowerName) ==
  \E i \in 1..Len(Callables(PlatformFile)) :
    ToLowerCase(Callables(PlatformFile)[i].name) = lowerName

\* String.prototype.localeCompare, as the rank of the strings of the project
PathRank(f) ==
  CASE f = "b1" -> 1 [] f = "b2" -> 2 [] f = PlatformFile -> 3
    [] f = "x1" -> 4 [] f = "x2" -> 5 [] f = "x3" -> 6 [] f = "x4" -> 7
    [] OTHER -> 8

NameRank(n) ==
  CASE n = "bar" -> 0 [] n = "foo" -> 1 [] n = "Foo" -> 2 [] n = "init" -> 3
    [] n = "len" -> 4 [] OTHER -> 5

(***************************************************************************)
(* Scope: namespace and class lookups                                      *)
(***************************************************************************)
\* toLowerCase of a dotted name, part by part
LowerParts(parts) == [i \in 1..Len(parts) |-> ToLowerCase(parts[i])]

\* an object of the runtime as the sequence of its entries, in insertion
\* order of the keys: obj[key] = value keeps the place of a key that exists
PutEntry(obj, key, value) ==
  IF \E i \in 1..Len(obj) : obj[i].key = key
    THEN [i \in 1..Len(obj) |->
            IF obj[i].key = key THEN [key |-> key, value |-> value] ELSE obj[i]]
    ELSE Append(obj, [key |-> key, value |-> value])

HasEntry(obj, key) == \E i \in 1..Len(obj) : obj[i].key = key

GetEntry(obj, key) == (CHOOSE i \in 1..Len(obj) : obj[i].key = key) \* index of the key

GetNamespaceStatements(st, s) ==
  FoldL(LAMBDA acc, f : acc \o NamespaceStatements(f), << >>, st.files[s])

\* a string as the sequence of its pieces, where string operations need them:
\* the part NameB is Name followed by B
Pieces(part) ==
  CASE part = "NameB" -> << "Name", "B" >>
    [] part = "NAMEB" -> << "NAME", "B" >>
    [] part = "nameb" -> << "name", "b" >>
    [] OTHER -> << part >>

\* the dotted name of a namespace as a string: the parts joined by "."
DottedName(parts) ==
  FoldL(LAMBDA acc, i : acc \o (IF i > 1 THEN << "." >> ELSE << >>) \o Pieces(parts[i]),
        << >>, [i \in 1..Len(parts) |-> i])

\* toLowerCase of a string given as its pieces
LowerString(str) == [i \in 1..Len(str) |-> ToLowerCase(str[i])]

\* String.prototype.startsWith
StartsWith(str, prefix) ==
  Len(prefix) <= Len(str) /\ SubSeq(str, 1, Len(prefix)) = prefix

\* variant: a name that begins like a declared one is known
IsKnownNamespaceAnyPrefix(st, s, namespaceName) ==
  LET namespaceNameLower == LowerString(namespaceName) IN
  \E k \in 1..Len(GetNamespaceStatements(st, s)) :
    LET loopNamespaceNameLower ==
          LowerString(DottedName(GetNamespaceStatements(st, s)[k].name))
    IN  \/ loopNamespaceNameLower = namespaceNameLower
        \/ StartsWith(loopNamespaceNameLower, namespaceNameLower)

\* Scope.isKnownNamespace: the namespaces of the member files, one after the
\* other, until one has the name or begins with the name and a "."
IsKnownNamespace(st, s, namespaceName) ==
  LET namespaceNameLower == LowerString(namespaceName) IN
  \E k \in 1..Len(GetNamespaceStatements(st, s)) :
    LET loopNamespaceNameLower ==
          LowerString(DottedName(GetNamespaceStatements(st, s)[k].name))
    IN  \/ loopNamespaceNameLower = namespaceNameLower
        \/ StartsWith(loopNamespaceNameLower, namespaceNameLower \o << "." >>)

\* first loop of buildNamespaceLookup, for one namespace statement
AddNamespace(lookup, namespace) ==
  LET name == namespace.name
      withParts ==
        FoldL(LAMBDA acc, n :
                LET loopName == SubSeq(name, 1, n)
                    lowerLoopName == LowerParts(loopName)
                IN  IF HasEntry(acc, lowerLoopName) THEN acc
                    ELSE PutEntry(acc, lowerLoopName,
                           [fullName |-> loopName, lastPartName |-> name[n],
                            namespaces |-> << >>, classStatements |-> << >>,
                            functionStatements |-> << >>, statements |-> << >>]),
              lookup, [n \in 1..Len(name) |-> n])
      k == GetEntry(withParts, LowerParts(name))
      ns == withParts[k].value
      filled ==
        FoldL(LAMBDA acc, statement :
                IF statement.kind = "class"
                  THEN [acc EXCEPT !.classStatements =
                          PutEntry(@, ToLowerCase(statement.name), statement)]
                  ELSE [acc EXCEPT !.functionStatements =
                          PutEntry(@, ToLowerCase(statement.name), statement)],
              [ns EXCEPT !.statements = @ \o namespace.body], namespace.body)
  IN  [withParts EXCEPT ![k].value = filled]

\* variant: the child is listed under its last part as written
LinkNamespacesAsWritten(lookup) ==
  FoldL(LAMBDA acc, i :
          LET ns == acc[i].value
              parts == ns.fullName
          IN  IF Len(parts) > 1
                THEN LET parentKey == LowerParts(SubSeq(parts, 1, Len(parts) - 1))
                         j == GetEntry(acc, parentKey)
                     IN  [acc EXCEPT ![j].value.namespaces =
                            PutEntry(@, ns.lastPartName, acc[i].key)]
                ELSE acc,
        lookup, [i \in 1..Len(lookup) |-> i])

\* second loop of buildNamespaceLookup: a namespace is listed in its parent;
\* the link is the key under which the child is stored
LinkNamespaces(lookup) ==
  FoldL(LAMBDA acc, i :
          LET ns == acc[i].value
              parts == ns.fullName
          IN  IF Len(parts) > 1
                THEN LET parentKey == LowerParts(SubSeq(parts, 1, Len(parts) - 1))
                         j == GetEntry(acc, parentKey)
                     IN  [acc EXCEPT ![j].value.namespaces =
                            PutEntry(@, ToLowerCase(ns.lastPartName), acc[i].key)]
                ELSE acc,
        lookup, [i \in 1..Len(lookup) |-> i])

BuildNamespaceLookup(st, s) ==
  LinkNamespaces(FoldL(AddNamespace, << >>, GetNamespaceStatements(st, s)))

BuildClassLookup(st, s) ==
  FoldL(LAMBDA acc, f :
          FoldL(LAMBDA acc2, cls : PutEntry(acc2, LowerParts(cls.name), cls),
                acc, ClassStatements(f)),
        << >>, st.files[s])

\* the namespaceLookup getter
NamespaceLookup(st, s) ==
  IF st.lookups[s].ns.built THEN st
  ELSE [st EXCEPT !.lookups[s].ns = [built |-> TRUE, val |-> BuildNamespaceLookup(st, s)]]

\* the classLookup getter
ClassLookup(st, s) ==
  IF st.lookups[s].cls.built THEN st
  ELSE [st EXCEPT !.lookups[s].cls = [built |-> TRUE, val |-> BuildClassLookup(st, s)]]

(***************************************************************************)
(* Scope: callables and validation                                         *)
(***************************************************************************)
Diag(code, f, at, info) == [code |-> code, file |-> f, at |-> at, info |-> info]

FileCallables(s, f) ==
  [i \in 1..Len(Callables(f)) |->
     [name |-> Callables(f)[i].name, params |-> Callables(f)[i].params,
      file |-> f, scope |-> s]]

GetOwnCallables(st, s) ==
  FoldL(LAMBDA acc, f : acc \o FileCallables(s, f), << >>, st.files[s])

\* own callables, then the parent's; the recursion has no visited set and
\* exhausts the stack when the parent links form a cycle
RECURSIVE GetAllCallables(_, _, _)
GetAllCallables(st, s, depth) ==
  IF depth > MaxStack
    THEN [ok |-> FALSE, val |-> << >>]
    ELSE IF st.parentScope[s] # NoScope
      THEN LET rest == GetAllCallables(st, st.parentScope[s], depth + 1) IN
           [ok |-> rest.ok, val |-> GetOwnCallables(st, s) \o rest.val]
      ELSE [ok |-> TRUE, val |-> GetOwnCallables(st, s)]

\* variant: the last callable of that name is returned
GetCallableByNameFarthest(st, s, name, depth) ==
  LET lowerName == ToLowerCase(name)
      callables == GetAllCallables(st, s, depth + 1)
      named == SelectSeq(callables.val, LAMBDA c : ToLowerCase(c.name) = lowerName)
  IN  [ok |-> callables.ok,
       val |-> IF named = << >> THEN << >> ELSE << named[Len(named)] >>]

\* Scope.getCallableByName: the first callable of getAllCallables() with that
\* name, letter case ignored; val is empty when the method returns undefined
GetCallableByName(st, s, name, depth) ==
  LET lowerName == ToLowerCase(name)
      callables == GetAllCallables(st, s, depth + 1)
      named == SelectSeq(callables.val, LAMBDA c : ToLowerCase(c.name) = lowerName)
  IN  [ok |-> callables.ok,
       val |-> IF named = << >> THEN << >> ELSE << named[1] >>]

\* the comparator of the sort in validate()
CallableLess(a, b) ==
  \/ PathRank(a.file) < PathRank(b.file)
  \/ PathRank(a.file) = PathRank(b.file) /\ NameRank(a.name) < NameRank(b.name)

\* Array.prototype.sort is stable: c goes after everything not greater than it
InsertSorted(sorted, c) ==
  LET before == {i \in 1..Len(sorted) : ~CallableLess(c, sorted[i])}
      k == IF before = {} THEN 0
           ELSE CHOOSE i \in before : \A j \in before : j <= i
  IN  SubSeq(sorted, 1, k) \o << c >> \o SubSeq(sorted, k + 1, Len(sorted))

SortCallables(cs) == FoldL(InsertSorted, << >>, cs)

\* the keys of util.getCallableContainersByLowerName, in insertion order
LowerNames(cs) ==
  FoldL(LAMBDA acc, c :
          IF ToLowerCase(c.name) \in Range(acc) THEN acc
          ELSE Append(acc, ToLowerCase(c.name)),
        << >>, cs)

Bucket(cs, lowerName) == SelectSeq(cs, LAMBDA c : ToLowerCase(c.name) = lowerName)

\* variant: the first own declaration of a name is not flagged as duplicate
DiagnosticFindDuplicatesAfterFirst(s, cs) ==
  FoldL(LAMBDA acc, lowerName :
          LET containers == Bucket(cs, lowerName)
              ownCallables == SelectSeq(containers, LAMBDA c : c.scope = s)
              ancestorNonPlatformCallables ==
                SelectSeq(containers, LAMBDA c : c.scope # Platform /\ c.scope # s)
              shadowed == ancestorNonPlatformCallables[Len(ancestorNonPlatformCallables)]
              overrides ==
                IF Len(ownCallables) > 0 /\ Len(ancestorNonPlatformCallables) > 0
                   /\ lowerName # "init"
                  THEN [i \in 1..Len(ownCallables) |->
                          Diag("overridesAncestorFunction", ownCallables[i].file,
                               ownCallables[i].name,
                               << ownCallables[i].scope, PkgPath(shadowed.file),
                                  shadowed.scope >>)]
                  ELSE << >>
              duplicates ==
                IF Len(ownCallables) > 1
                  THEN [i \in 1..(Len(ownCallables) - 1) |->
                          Diag("duplicateFunctionImplementation", ownCallables[i + 1].file,
                               ownCallables[i + 1].name, << ownCallables[i + 1].scope >>)]
                  ELSE << >>
          IN  acc \o overrides \o duplicates,
        << >>, LowerNames(cs))

\* variant: the init function is reported as an override like any other
DiagnosticFindDuplicatesInitIncluded(s, cs) ==
  FoldL(LAMBDA acc, lowerName :
          LET containers == Bucket(cs, lowerName)
              ownCallables == SelectSeq(containers, LAMBDA c : c.scope = s)
              ancestorNonPlatformCallables ==
                SelectSeq(containers, LAMBDA c : c.scope # Platform /\ c.scope # s)
              shadowed == ancestorNonPlatformCallables[Len(ancestorNonPlatformCallables)]
              overrides ==
                IF Len(ownCallables) > 0 /\ Len(ancestorNonPlatformCallables) > 0
                  THEN [i \in 1..Len(ownCallables) |->
                          Diag("overridesAncestorFunction", ownCallables[i].file,
                               ownCallables[i].name,
                               << ownCallables[i].scope, PkgPath(shadowed.file),
                                  shadowed.scope >>)]
                  ELSE << >>
              duplicates ==
                IF Len(ownCallables) > 1
                  THEN [i \in 1..Len(ownCallables) |->
                          Diag("duplicateFunctionImplementation", ownCallables[i].file,
                               ownCallables[i].name, << ownCallables[i].scope >>)]
                  ELSE << >>
          IN  acc \o overrides \o duplicates,
        << >>, LowerNames(cs))

DiagnosticFindDuplicateFunctionDeclarations(s, cs) ==
  FoldL(LAMBDA acc, lowerName :
          LET containers == Bucket(cs, lowerName)
              ownCallables == SelectSeq(containers, LAMBDA c : c.scope = s)
              ancestorNonPlatformCallables ==
                SelectSeq(containers, LAMBDA c : c.scope # Platform /\ c.scope # s)
              shadowed == ancestorNonPlatformCallables[Len(ancestorNonPlatformCallables)]
              overrides ==
                IF Len(ownCallables) > 0 /\ Len(ancestorNonPlatformCallables) > 0
                   /\ lowerName # "init"
                  THEN [i \in 1..Len(ownCallables) |->
                          Diag("overridesAncestorFunction", ownCallables[i].file,
                               ownCallables[i].name,
                               << ownCallables[i].scope, PkgPath(shadowed.file),
                                  shadowed.scope >>)]
                  ELSE << >>
              duplicates ==
                IF Len(ownCallables) > 1
                  THEN [i \in 1..Len(ownCallables) |->
                          Diag("duplicateFunctionImplementation", ownCallables[i].file,
                               ownCallables[i].name, << ownCallables[i].scope >>)]
                  ELSE << >>
          IN  acc \o overrides \o duplicates,
        << >>, LowerNames(cs))

\* variant: a local variable named like the callee is not looked for
DiagnosticDetectCallsToUnknownFunctionsNoLocals(s, f, cs) ==
  FoldL(LAMBDA acc, expCall :
          IF Bucket(cs, ToLowerCase(expCall.name)) = << >>
            THEN Append(acc, Diag("callToUnknownFunction", f, expCall.name, << s >>))
            ELSE acc,
        << >>, FunctionCalls(f))

DiagnosticDetectCallsToUnknownFunctions(s, f, cs) ==
  FoldL(LAMBDA acc, expCall :
          IF ~expCall.localVar /\ Bucket(cs, ToLowerCase(expCall.name)) = << >>
            THEN Append(acc, Diag("callToUnknownFunction", f, expCall.name, << s >>))
            ELSE acc,
        << >>, FunctionCalls(f))

CountRequired(params) == Len(SelectSeq(params, LAMBDA isOptional : isOptional = FALSE))

\* String(n) for the parameter counts of the project
NumText(n) ==
  CASE n = 0 -> "0" [] n = 1 -> "1" [] n = 2 -> "2" [] n = 3 -> "3" [] OTHER -> "n"

\* variant: optional parameters count as required
DiagnosticDetectWrongParamCountAllRequired(f, cs) ==
  FoldL(LAMBDA acc, expCall :
          LET known == Bucket(cs, ToLowerCase(expCall.name)) IN
          IF known = << >> THEN acc
          ELSE LET minParams == Len(known[1].params)
                   maxParams == Len(known[1].params)
               IN  IF expCall.args > maxParams \/ expCall.args < minParams
                     THEN Append(acc,
                            Diag("mismatchArgumentCount", f, expCall.name,
                                 << NumText(maxParams), NumText(expCall.args) >>))
                     ELSE acc,
        << >>, FunctionCalls(f))

DiagnosticDetectFunctionCallsWithWrongParamCount(f, cs) ==
  FoldL(LAMBDA acc, expCall :
          LET known == Bucket(cs, ToLowerCase(expCall.name)) IN
          IF known = << >> THEN acc
          ELSE LET minParams == CountRequired(known[1].params)
                   maxParams == Len(known[1].params)
               IN  IF expCall.args > maxParams \/ expCall.args < minParams
                     THEN Append(acc,
                            Diag("mismatchArgumentCount", f, expCall.name,
                                 (IF minParams = maxParams
                                    THEN << NumText(maxParams) >>
                                    ELSE << NumText(minParams), "-", NumText(maxParams) >>)
                                 \o << NumText(expCall.args) >>))
                     ELSE acc,
        << >>, FunctionCalls(f))

\* variant: the scope callables are looked at before the platform callables
DiagnosticDetectShadowedLocalVarsScopeFirst(f, cs) ==
  FoldL(LAMBDA acc, v :
          LET lowerVarName == ToLowerCase(v.name)
              inScope == Bucket(cs, lowerVarName) # << >>
          IN  IF v.isFunction
                THEN IF inScope
                       THEN Append(acc, Diag("localVarFunctionShadowsParentFunction", f,
                                             v.name, << "scope" >>))
                       ELSE IF IsPlatformCallable(lowerVarName)
                         THEN Append(acc, Diag("localVarFunctionShadowsParentFunction", f,
                                               v.name, << "stdlib" >>))
                         ELSE acc
                ELSE IF inScope /\ ~IsPlatformCallable(lowerVarName)
                  THEN Append(acc, Diag("localVarShadowedByScopedFunction", f, v.name, << >>))
                  ELSE acc,
        << >>, VariableDeclarations(f))

DiagnosticDetectShadowedLocalVars(f, cs) ==
  FoldL(LAMBDA acc, v :
          LET lowerVarName == ToLowerCase(v.name)
              inScope == Bucket(cs, lowerVarName) # << >>
          IN  IF v.isFunction
                THEN IF IsPlatformCallable(lowerVarName)
                       THEN Append(acc, Diag("localVarFunctionShadowsParentFunction", f,
                                             v.name, << "stdlib" >>))
                       ELSE IF inScope
                         THEN Append(acc, Diag("localVarFunctionShadowsParentFunction", f,
                                               v.name, << "scope" >>))
                         ELSE acc
                ELSE IF inScope /\ ~IsPlatformCallable(lowerVarName)
                  THEN Append(acc, Diag("localVarShadowedByScopedFunction", f, v.name, << >>))
                  ELSE acc,
        << >>, VariableDeclarations(f))

DiagnosticDetectFunctionCollisions(f) ==
  FoldL(LAMBDA acc, func :
          IF IsPlatformCallable(ToLowerCase(func.name))
            THEN Append(acc, Diag("scopeFunctionShadowedByBuiltInFunction", f, func.name, << >>))
            ELSE acc,
        << >>, Callables(f))

\* the diagnostics Scope.validate collects, given getAllCallables()
\* (no class is declared in the project: validateClasses adds nothing)
ScopeDiagnostics(st, s, all) ==
  LET cs == SortCallables(all) IN
  DiagnosticFindDuplicateFunctionDeclarations(s, cs)
  \o FoldL(LAMBDA acc, f :
             acc \o DiagnosticDetectCallsToUnknownFunctions(s, f, cs)
                 \o DiagnosticDetectFunctionCallsWithWrongParamCount(f, cs)
                 \o DiagnosticDetectShadowedLocalVars(f, cs)
                 \o DiagnosticDetectFunctionCollisions(f),
           << >>, st.files[s])

\* a step of validate() on scope s is noted with the isValidated flags and the
\* diagnostics of s it leaves: "begin" (past the early return), "clear"
\* (this.diagnostics = []), "set" (an assignment to isValidated) and "extras"
\* (the checks of XmlScope)
Step(st, ev, s) ==
  [st EXCEPT !.trace = Append(@, [ev |-> ev, scope |-> s,
                                  validated |-> st.isValidated,
                                  held |-> st.diagnostics[s]])]

\* Scope.validate(force)
RECURSIVE ScopeValidate(_, _, _, _)
RECURSIVE XmlScopeValidate(_, _, _)
\* parentScope.validate(force) is dispatched on the class of the parent;
\* XmlScope.validate takes no argument
ValidateCall(st, s, force, depth) ==
  IF s = Platform THEN ScopeValidate(st, s, force, depth)
  ELSE XmlScopeValidate(st, s, depth)

\* variant: the scope is validated first and its parent afterwards
ScopeValidateParentLast(st, s, force, depth) ==
  IF depth > MaxStack THEN [st EXCEPT !.threw = TRUE]
  ELSE IF st.isValidated[s] /\ ~force THEN st
  ELSE
    LET p == st.parentScope[s]
        st0 == Step(st, "begin", s)
        st2 == Step([st0 EXCEPT !.diagnostics[s] = << >>], "clear", s)
        all == GetAllCallables(st2, s, depth + 1)
    IN  IF ~all.ok THEN [st2 EXCEPT !.threw = TRUE]
        ELSE
          LET st3 == Step(SetIsValidated(
                            [st2 EXCEPT !.diagnostics[s] = ScopeDiagnostics(st2, s, all.val)],
                            s, TRUE), "set", s)
          IN  IF p # NoScope /\ ~st3.isValidated[p]
                THEN ValidateCall(st3, p, force, depth + 1)
                ELSE st3

\* variant: the diagnostics of the scope are not cleared
ScopeValidateKeepsDiagnostics(st, s, force, depth) ==
  IF depth > MaxStack THEN [st EXCEPT !.threw = TRUE]
  ELSE IF st.isValidated[s] /\ ~force THEN st
  ELSE
    LET p == st.parentScope[s]
        st0 == Step(st, "begin", s)
        st1 == IF p # NoScope /\ ~st0.isValidated[p]
                 THEN ValidateCall(st0, p, force, depth + 1)
                 ELSE st0
    IN  IF st1.threw THEN st1
        ELSE
          LET st2 == Step(st1, "clear", s)
              all == GetAllCallables(st2, s, depth + 1)
          IN  IF ~all.ok THEN [st2 EXCEPT !.threw = TRUE]
              ELSE Step(SetIsValidated(
                          [st2 EXCEPT !.diagnostics[s] = @ \o ScopeDiagnostics(st2, s, all.val)],
                          s, TRUE), "set", s)

ScopeValidate(st, s, force, depth) ==
  IF depth > MaxStack THEN [st EXCEPT !.threw = TRUE]
  ELSE IF st.isValidated[s] /\ ~force THEN st
  ELSE
    LET p == st.parentScope[s]
        st0 == Step(st, "begin", s)
        st1 == IF p # NoScope /\ ~st0.isValidated[p]
                 THEN ValidateCall(st0, p, force, depth + 1)
                 ELSE st0
    IN  IF st1.threw THEN st1
        ELSE
          LET st2 == Step([st1 EXCEPT !.diagnostics[s] = << >>], "clear", s)
              all == GetAllCallables(st2, s, depth + 1)
          IN  IF ~all.ok THEN [st2 EXCEPT !.threw = TRUE]
              ELSE Step(SetIsValidated(
                          [st2 EXCEPT !.diagnostics[s] = ScopeDiagnostics(st2, s, all.val)],
                          s, TRUE), "set", s)

\* variant: the last occurrence of a pkgPath among the ancestors is named
DiagnosticDetectDuplicateAncestorImportsFarthest(st, s) ==
  IF st.xmlParent[s] = NoFile THEN << >>
  ELSE
    LET parentScriptImports == GetAncestorScriptTagImports(st, s)
        Lookup(pkgPath) ==
          SelectSeq(parentScriptImports, LAMBDA r : r.pkgPath = pkgPath)
    IN  FoldL(LAMBDA acc, scriptImport :
                IF Lookup(scriptImport.pkgPath) # << >>
                  THEN Append(acc,
                         Diag("unnecessaryScriptImportInChildFromParent", s,
                              scriptImport.pkgPath,
                              << ComponentName(
                                   Lookup(scriptImport.pkgPath)[
                                     Len(Lookup(scriptImport.pkgPath))].sourceFile) >>))
                  ELSE acc,
              << >>, ScriptTagImports(s))

\* XmlScope.diagnosticDetectDuplicateAncestorScriptImports
DiagnosticDetectDuplicateAncestorScriptImports(st, s) ==
  IF st.xmlParent[s] = NoFile THEN << >>
  ELSE
    LET parentScriptImports == GetAncestorScriptTagImports(st, s)
        \* the first occurrence of a pkgPath is kept
        Lookup(pkgPath) ==
          SelectSeq(parentScriptImports, LAMBDA r : r.pkgPath = pkgPath)
    IN  FoldL(LAMBDA acc, scriptImport :
                IF Lookup(scriptImport.pkgPath) # << >>
                  THEN Append(acc,
                         Diag("unnecessaryScriptImportInChildFromParent", s,
                              scriptImport.pkgPath,
                              << ComponentName(Lookup(scriptImport.pkgPath)[1].sourceFile) >>))
                  ELSE acc,
              << >>, ScriptTagImports(s))

\* variant: the paths are compared as written
GetFileByRelativePathExact(st, s, relativePath) ==
  SelectSeq(st.files[s], LAMBDA f : PkgPath(f) = relativePath)

\* Scope.getFileByRelativePath: the first member file with that pkgPath, letter
\* case ignored
GetFileByRelativePath(st, s, relativePath) ==
  SelectSeq(st.files[s],
            LAMBDA f : ToLowerCase(PkgPath(f)) = ToLowerCase(relativePath))

\* XmlScope.diagnosticValidateScriptImportPaths
DiagnosticValidateScriptImportPaths(st, s) ==
  FoldL(LAMBDA acc, scriptImport :
          LET referencedFile == GetFileByRelativePath(st, s, scriptImport.pkgPath) IN
          IF referencedFile = << >>
            THEN Append(acc,
                   Diag(IF Trim(scriptImport.text) = "" THEN "scriptSrcCannotBeEmpty"
                        ELSE "referencedFileDoesNotExist",
                        s, scriptImport.pkgPath, << >>))
            ELSE IF scriptImport.pkgPath # PkgPath(referencedFile[1])
              THEN Append(acc, Diag("scriptImportCaseMismatch", s, scriptImport.pkgPath,
                                    << PkgPath(referencedFile[1]) >>))
              ELSE acc,
        << >>, ScriptTagImports(s))

\* variant: the checks of the descriptor are left out
XmlScopeValidateBaseOnly(st, s, depth) ==
  IF depth > MaxStack THEN [st EXCEPT !.threw = TRUE]
  ELSE IF st.isValidated[s] THEN st
  ELSE ScopeValidate(st, s, FALSE, depth + 1)

\* XmlScope.validate(); the step "extras" is noted when both checks of the
\* descriptor have run
XmlScopeValidate(st, s, depth) ==
  IF depth > MaxStack THEN [st EXCEPT !.threw = TRUE]
  ELSE IF st.isValidated[s] THEN st
  ELSE
    LET st1 == ScopeValidate(st, s, FALSE, depth + 1) IN
    IF st1.threw THEN st1
    ELSE
      LET st2 == Step(SetIsValidated(st1, s, FALSE), "set", s)
          st3 == Step([st2 EXCEPT !.diagnostics[s] =
                         @ \o DiagnosticDetectDuplicateAncestorScriptImports(st2, s)
                           \o DiagnosticValidateScriptImportPaths(st2, s)],
                      "extras", s)
      IN  Step(SetIsValidated(st3, s, TRUE), "set", s)

(***************************************************************************)
(* Program and dependency graph (spec.md 4.3, 4.7, 5)                      *)
(***************************************************************************)
\* the node of descriptor x depends on the files its script tags import
DependsOn(x, f) ==
  \/ f = x
  \/ \E i \in 1..Len(ScriptTagImports(x)) :
       ToLowerCase(ScriptTagImports(x)[i].pkgPath) = ToLowerCase(PkgPath(f))

\* the graph node of file f changed: the subscribed scopes that depend on it hear it
DependencyGraphChange(st, f) ==
  FoldL(LAMBDA acc, s :
          IF s # Platform /\ DependsOn(s, f) THEN OnDependencyChange(acc, s) ELSE acc,
        st, st.scopeOrder)

\* program.emit('file-added', f): the listeners in the order they were registered
EmitFileAdded(st, f) ==
  FoldL(LAMBDA acc, s :
          IF s = Platform THEN OnFileAdded(acc, s, f)
          ELSE AddParentIfMatch(OnFileAdded(acc, s, f), s, f),
        st, st.scopeOrder)

\* program.emit('file-removed', f)
EmitFileRemoved(st, f) ==
  FoldL(LAMBDA acc, s :
          IF s = Platform THEN OnFileRemoved(acc, s, f)
          ELSE OnProgramFileRemove(OnFileRemoved(acc, s, f), s, f),
        st, st.scopeOrder)

\* new XmlScope(xmlFile), registered under the descriptor's pkgPath and attached;
\* a scope left without a parent gets the platform scope
AddScope(st, x) ==
  LET fresh == [st EXCEPT !.status[x] = "live",
                          !.isValidated[x] = FALSE,
                          !.files[x] = << >>,
                          !.parentScope[x] = NoScope,
                          !.handle[x] = NoHandle,
                          !.diagnostics[x] = << >>,
                          !.lookups[x] = [ns |-> NoLookup, cls |-> NoLookup],
                          !.xmlParent[x] = NoFile,
                          !.xmlHandles[x] = TRUE,
                          !.listeners = [p \in AllScopes |-> [c \in AllScopes |->
                                           IF p = x \/ c = x THEN 0 ELSE @[p][c]]]]
      st1 == XmlScopeAttachProgram(fresh, x)
  IN  IF st1.parentScope[x] = NoScope
        THEN [st1 EXCEPT !.parentScope[x] = Platform]
        ELSE st1

\* Program: add a file
ProgramAddFile(st, f) ==
  LET st1 == [st EXCEPT !.progFiles = Append(@, f)]
      st2 == IF f \in XmlIds THEN AddScope(st1, f) ELSE st1
      st3 == EmitFileAdded(st2, f)
  IN  DependencyGraphChange(st3, f)

\* Program: remove a file
ProgramRemoveFile(st, f) ==
  LET st1 == EmitFileRemoved(st, f)
      st2 == IF f \in XmlIds
               THEN [XmlScopeDispose(st1, f) EXCEPT !.status[f] = "disposed"]
               ELSE st1
      st3 == [st2 EXCEPT !.progFiles = Without(@, f)]
  IN  DependencyGraphChange(st3, f)

(***************************************************************************)
(* Parser (spec.md 4.1): assignments whose value is an expression of       *)
(* literals, +, not and array literals                                     *)
(***************************************************************************)
\* a range is << start line, start column, end line, end column >>
Token(kind, range) == [kind |-> kind, range |-> range]

Node(kind, range, elements) == [kind |-> kind, range |-> range, elements |-> elements]

\* from the start of the first range to the end of the last
SpanRange(first, last) == << first[1], first[2], last[3], last[4] >>

\* the kind of the token at place i; past the end is the end of file
KindAt(ts, i) == IF i <= Len(ts) THEN ts[i].kind ELSE "Eof"

\* the place of the first token at or after i that is not a newline
RECURSIVE SkipNewlines(_, _)
SkipNewlines(ts, i) ==
  IF KindAt(ts, i) = "Newline" THEN SkipNewlines(ts, i + 1) ELSE i

\* variant: newlines inside a bracketed literal are not absorbed
AbsorbNoNewlines(ts, i) == i

\* inside a bracketed literal newlines are absorbed
AbsorbNewlines(ts, i) == SkipNewlines(ts, i)

\* variant: the range of the literal ends where the closing bracket starts
ArrayLiteralRangeToCloserStart(open, close) ==
  << open.range[1], open.range[2], close.range[1], close.range[2] >>

\* the range of a bracketed literal: opening bracket to closing bracket
ArrayLiteralRange(open, close) == SpanRange(open.range, close.range)

NoNode == Node("none", << 0, 0, 0, 0 >>, << >>)

Failed(pos) == [ok |-> FALSE, pos |-> pos, node |-> NoNode]

Parsed(pos, node) == [ok |-> TRUE, pos |-> pos, node |-> node]

RECURSIVE ParseExpression(_, _)
RECURSIVE ParseAdditive(_, _, _)
RECURSIVE ParseUnary(_, _)
RECURSIVE ParsePrimary(_, _)
RECURSIVE ParseArrayLiteral(_, _)
RECURSIVE ParseArrayElements(_, _, _)

\* a literal or a bracketed literal
ParsePrimary(ts, i) ==
  IF KindAt(ts, i) \in {"IntegerLiteral", "False"}
    THEN Parsed(i + 1, Node("LiteralExpression", ts[i].range, << >>))
  ELSE IF KindAt(ts, i) = "LeftSquareBracket" THEN ParseArrayLiteral(ts, i)
  ELSE Failed(i)

\* prefix operator
ParseUnary(ts, i) ==
  IF KindAt(ts, i) = "Not"
    THEN LET right == ParseUnary(ts, i + 1) IN
         IF right.ok
           THEN Parsed(right.pos,
                       Node("UnaryExpression", SpanRange(ts[i].range, right.node.range),
                            << right.node >>))
           ELSE right
    ELSE ParsePrimary(ts, i)

\* left operand parsed up to i: any number of "+ operand"
ParseAdditive(ts, left, i) ==
  IF KindAt(ts, i) = "Plus"
    THEN LET right == ParseUnary(ts, i + 1) IN
         IF right.ok
           THEN ParseAdditive(ts,
                  Node("BinaryExpression", SpanRange(left.range, right.node.range),
                       << left, right.node >>),
                  right.pos)
           ELSE right
    ELSE Parsed(i, left)

ParseExpression(ts, i) ==
  LET left == ParseUnary(ts, i) IN
  IF left.ok THEN ParseAdditive(ts, left.node, left.pos) ELSE left

\* the items after the first: each follows a comma or a newline, further
\* newlines are absorbed, and a separator may be followed by the closing bracket
ParseArrayElements(ts, elements, i) ==
  IF KindAt(ts, i) \in {"Comma", "Newline"}
    THEN LET j == AbsorbNewlines(ts, i + 1) IN
         IF KindAt(ts, j) = "RightSquareBracket"
           THEN [ok |-> TRUE, pos |-> j, elements |-> elements]
           ELSE LET item == ParseExpression(ts, j) IN
                IF item.ok
                  THEN ParseArrayElements(ts, Append(elements, item.node), item.pos)
                  ELSE [ok |-> FALSE, pos |-> item.pos, elements |-> elements]
    ELSE [ok |-> TRUE, pos |-> i, elements |-> elements]

\* an array literal; the token at i is its opening bracket
ParseArrayLiteral(ts, i) ==
  LET j == AbsorbNewlines(ts, i + 1) IN
  IF KindAt(ts, j) = "RightSquareBracket"
    THEN Parsed(j + 1, Node("ArrayLiteralExpression", ArrayLiteralRange(ts[i], ts[j]), << >>))
    ELSE LET first == ParseExpression(ts, j) IN
         IF ~first.ok THEN Failed(first.pos)
         ELSE LET rest == ParseArrayElements(ts, << first.node >>, first.pos) IN
              IF rest.ok /\ KindAt(ts, rest.pos) = "RightSquareBracket"
                THEN Parsed(rest.pos + 1,
                            Node("ArrayLiteralExpression",
                                 ArrayLiteralRange(ts[i], ts[rest.pos]), rest.elements))
                ELSE Failed(rest.pos)

\* error recovery: the next statement boundary at or after i
RECURSIVE SkipToBoundary(_, _)
SkipToBoundary(ts, i) ==
  IF KindAt(ts, i) \in {"Newline", "Eof"} THEN i ELSE SkipToBoundary(ts, i + 1)

\* a diagnostic of the parser, at the token at place i
ParseDiagnostic(ts, i) ==
  [code |-> "unexpectedToken",
   range |-> IF i <= Len(ts) THEN ts[i].range ELSE ts[Len(ts)].range]

\* the statements from place i on; newlines end a statement
RECURSIVE ParseStatements(_, _, _)
ParseStatements(ts, i, acc) ==
  LET j == SkipNewlines(ts, i) IN
  IF KindAt(ts, j) = "Eof" THEN acc
  ELSE IF KindAt(ts, j) = "Identifier" /\ KindAt(ts, j + 1) = "Equal"
    THEN LET value == ParseExpression(ts, j + 2) IN
         IF value.ok /\ KindAt(ts, value.pos) \in {"Newline", "Eof"}
           THEN ParseStatements(ts, value.pos,
                  [acc EXCEPT !.statements =
                     Append(@, [kind |-> "AssignmentStatement", value |-> value.node,
                                range |-> SpanRange(ts[j].range, value.node.range)])])
           ELSE ParseStatements(ts, SkipToBoundary(ts, value.pos),
                  [acc EXCEPT !.diagnostics = Append(@, ParseDiagnostic(ts, value.pos))])
    ELSE ParseStatements(ts, SkipToBoundary(ts, j + 1),
           [acc EXCEPT !.diagnostics = Append(@, ParseDiagnostic(ts, j))])

\* no token list has been parsed
NoParse == [done |-> FALSE, statements |-> << >>, diagnostics |-> << >>]

\* Parser.parse(tokens)
ParserParse(ts) ==
  ParseStatements(ts, 1, [done |-> TRUE, statements |-> << >>, diagnostics |-> << >>])

(***************************************************************************)
(* Actions: one per call into the program or a scope                       *)
(***************************************************************************)
Commit(n, call) ==
  /\ steps < MaxSteps
  /\ steps' = steps + 1
  /\ progFiles' = n.progFiles
  /\ scopeOrder' = n.scopeOrder
  /\ status' = n.status
  /\ isValidated' = n.isValidated
  /\ files' = n.files
  /\ parentScope' = n.parentScope
  /\ handle' = n.handle
  /\ listeners' = n.listeners
  /\ xmlParent' = n.xmlParent
  /\ xmlHandles' = n.xmlHandles
  /\ diagnostics' = n.diagnostics
  /\ lookups' = n.lookups
  /\ emitted' = n.emitted
  /\ changed' = n.changed
  /\ lastCall' = [call EXCEPT !.threw = n.threw, !.trace = n.trace]
  /\ UNCHANGED << tokens, parsed >>

Call(op, s, f) ==
  [op |-> op, scope |-> s, file |-> f, force |-> FALSE,
   threw |-> FALSE, trace |-> << >>]

LiveScopes == {s \in ScopeIds : status[s] = "live"} \cup {Platform}

AddFile(f) ==
  /\ f \notin Range(progFiles)
  /\ Commit(ProgramAddFile(Cur, f), Call("addFile", NoScope, f))

RemoveFileFromProgram(f) ==
  /\ f \in Range(progFiles)
  /\ Commit(ProgramRemoveFile(Cur, f), Call("removeFile", NoScope, f))

\* scope.validate() and scope.validate(true)
Validate(s, force) ==
  /\ s \in LiveScopes
  /\ Commit(ValidateCall(Cur, s, force, 1),
            [Call("validate", s, NoFile) EXCEPT !.force = force])

\* Scope.getDiagnostics reads the stored lists; it changes nothing
GetDiagnostics(s) ==
  /\ s \in LiveScopes
  /\ Commit(Cur, Call("getDiagnostics", s, NoFile))

\* a read of scope.namespaceLookup
GetNamespaceLookup(s) ==
  /\ s \in LiveScopes
  /\ Commit(NamespaceLookup(Cur, s), Call("namespaceLookup", s, NoFile))

\* a read of scope.classLookup
GetClassLookup(s) ==
  /\ s \in LiveScopes
  /\ Commit(ClassLookup(Cur, s), Call("classLookup", s, NoFile))

\* the names callables are asked for
QueriedNames == {"foo", "Foo", "Init", "len", "bar", "missing"}

\* a call of scope.getCallableByName(name): it changes nothing, and throws when
\* the parent links form a cycle
LookupCallable(s, name) ==
  /\ s \in LiveScopes
  /\ Commit([Cur EXCEPT !.threw = ~GetCallableByName(Cur, s, name, 1).ok],
            Call("getCallableByName", s, NoFile))

\* the namespace names scopes are asked about, as their parts
QueriedNamespaces ==
  { << "NameA" >>, << "namea", "nameb" >>, << "NameA", "Name" >>,
    << "NameA", "NameB", "NameC" >>, << "NameB" >>, << "Other" >> }

\* a call of scope.isKnownNamespace(name): it changes nothing
AskKnownNamespace(s, name) ==
  /\ s \in LiveScopes
  /\ IsKnownNamespace(Cur, s, DottedName(name)) \in BOOLEAN
  /\ Commit(Cur, Call("isKnownNamespace", s, NoFile))

Init ==
  /\ progFiles = InitState.progFiles
  /\ scopeOrder = InitState.scopeOrder
  /\ status = InitState.status
  /\ isValidated = InitState.isValidated
  /\ files = InitState.files
  /\ parentScope = InitState.parentScope
  /\ handle = InitState.handle
  /\ listeners = InitState.listeners
  /\ xmlParent = InitState.xmlParent
  /\ xmlHandles = InitState.xmlHandles
  /\ diagnostics = InitState.diagnostics
  /\ lookups = InitState.lookups
  /\ emitted = {}
  /\ changed = {}
  /\ lastCall = NoCall
  /\ steps = 0
  /\ tokens = << >>
  /\ parsed = NoParse

Next ==
  \/ \E f \in FileIds : AddFile(f)
  \/ \E f \in FileIds : RemoveFileFromProgram(f)
  \/ \E s \in AllScopes, force \in BOOLEAN : Validate(s, force)
  \/ \E s \in AllScopes : GetDiagnostics(s)
  \/ \E s \in AllScopes : GetNamespaceLookup(s)
  \/ \E s \in AllScopes : GetClassLookup(s)
  \/ \E s \in AllScopes, name \in QueriedNames : LookupCallable(s, name)
  \/ \E s \in AllScopes, name \in QueriedNamespaces : AskKnownNamespace(s, name)

Spec == Init /\ [][Next]_vars

(***************************************************************************)
(* The parser on its own: a token list is chosen and parsed                *)
(***************************************************************************)
\* the number of tokens between "_ =" and the end of file in a generated list
MaxBody == 5

BodyKinds ==
  {"LeftSquareBracket", "RightSquareBracket", "Comma", "Newline",
   "IntegerLiteral", "Plus", "Not"}

\* the ranges the lexer gives to tokens one column wide, with one blank after
\* each token of a line
Layout(kinds) ==
  FoldL(LAMBDA acc, k :
          [line |-> IF k = "Newline" THEN acc.line + 1 ELSE acc.line,
           col |-> IF k = "Newline" THEN 0 ELSE acc.col + 2,
           out |-> Append(acc.out,
                          Token(k, << acc.line, acc.col, acc.line, acc.col + 1 >>))],
        [line |-> 0, col |-> 0, out |-> << >>], kinds).out

\* "_ =", any tokens, end of file
GeneratedTokens ==
  {Layout(<< "Identifier", "Equal" >> \o [i \in 1..n |-> b[i]] \o << "Eof" >>) :
     n \in 0..MaxBody, b \in [1..MaxBody -> BodyKinds]}

\* the token lists of the tests 'parser array literals'
TestTokens ==
  { Layout(<< "Identifier", "Equal" >> \o body \o << "Eof" >>) : body \in
    { << "LeftSquareBracket", "RightSquareBracket" >>,
      << "LeftSquareBracket", "Newline", "Newline", "Newline", "Newline", "Newline",
         "Newline", "RightSquareBracket" >>,
      << "LeftSquareBracket", "IntegerLiteral", "Comma", "IntegerLiteral", "Comma",
         "IntegerLiteral", "RightSquareBracket" >>,
      << "LeftSquareBracket", "Newline", "IntegerLiteral", "Comma", "Newline",
         "IntegerLiteral", "Comma", "Newline", "IntegerLiteral", "Newline",
         "RightSquareBracket" >>,
      << "LeftSquareBracket", "Newline", "IntegerLiteral", "Newline", "IntegerLiteral",
         "Newline", "IntegerLiteral", "Newline", "RightSquareBracket" >>,
      << "LeftSquareBracket",
         "LeftSquareBracket", "IntegerLiteral", "Comma", "IntegerLiteral", "Comma",
         "IntegerLiteral", "RightSquareBracket", "Comma",
         "LeftSquareBracket", "IntegerLiteral", "Comma", "IntegerLiteral", "Comma",
         "IntegerLiteral", "RightSquareBracket",
         "RightSquareBracket" >>,
      << "LeftSquareBracket", "IntegerLiteral", "Plus", "IntegerLiteral", "Comma",
         "Not", "False", "RightSquareBracket" >> } }

\* a list with every kind of separator, a nested array and expressions:
\*   _ = [ (newline) [ 1 + 2 , (newline) not false ] (newline) (newline) [ ] , 3 (newline) ]
MixedTokens ==
  Layout(<< "Identifier", "Equal", "LeftSquareBracket", "Newline",
            "LeftSquareBracket", "IntegerLiteral", "Plus", "IntegerLiteral", "Comma",
            "Newline", "Not", "False", "RightSquareBracket", "Newline", "Newline",
            "LeftSquareBracket", "RightSquareBracket", "Comma", "IntegerLiteral",
            "Newline", "RightSquareBracket", "Eof" >>)

\* the token list of the test 'location tracking'
LocationTrackingTokens ==
  << Token("Identifier", << 0, 0, 0, 1 >>),
     Token("Equal", << 0, 2, 0, 3 >>),
     Token("LeftSquareBracket", << 0, 4, 0, 5 >>),
     Token("RightSquareBracket", << 0, 8, 0, 9 >>),
     Token("Newline", << 0, 9, 0, 10 >>),
     Token("Newline", << 1, 0, 1, 1 >>),
     Token("Identifier", << 2, 0, 2, 1 >>),
     Token("Equal", << 2, 2, 2, 3 >>),
     Token("LeftSquareBracket", << 2, 4, 2, 5 >>),
     Token("Newline", << 3, 0, 3, 1 >>),
     Token("Newline", << 4, 0, 4, 1 >>),
     Token("RightSquareBracket", << 5, 0, 5, 1 >>),
     Token("Eof", << 5, 1, 5, 2 >>) >>

ParserInputs ==
  GeneratedTokens \cup TestTokens \cup {MixedTokens, LocationTrackingTokens}

ParserInit ==
  /\ progFiles = InitState.progFiles
  /\ scopeOrder = InitState.scopeOrder
  /\ status = InitState.status
  /\ isValidated = InitState.isValidated
  /\ files = InitState.files
  /\ parentScope = InitState.parentScope
  /\ handle = InitState.handle
  /\ listeners = InitState.listeners
  /\ xmlParent = InitState.xmlParent
  /\ xmlHandles = InitState.xmlHandles
  /\ diagnostics = InitState.diagnostics
  /\ lookups = InitState.lookups
  /\ emitted = {}
  /\ changed = {}
  /\ lastCall = NoCall
  /\ steps = 0
  /\ tokens \in ParserInputs
  /\ parsed = NoParse

\* Parser.parse(tokens)
Parse ==
  /\ ~parsed.done
  /\ parsed' = ParserParse(tokens)
  /\ UNCHANGED << progFiles, scopeOrder, status, isValidated, files, parentScope,
                  handle, listeners, xmlParent, xmlHandles, diagnostics, lookups,
                  emitted, changed, lastCall, steps, tokens >>

ParserNext == Parse

ParserSpec == ParserInit /\ [][ParserNext]_vars

(***************************************************************************)
(* Claims                                                                  *)
(***************************************************************************)
\* the scopes on the parent chain of s under the parent links ps (s excluded
\* unless the chain comes back to it)
RECURSIVE ChainWalk(_, _, _)
ChainWalk(ps, cur, seen) ==
  IF cur = NoScope \/ cur \in seen THEN seen
  ELSE ChainWalk(ps, ps[cur], seen \cup {cur})

ScopeAncestors(ps, s) == ChainWalk(ps, ps[s], {})

\* following parentScope from s ends at the platform scope
RECURSIVE ReachesPlatform(_, _, _)
ReachesPlatform(ps, cur, seen) ==
  IF cur = Platform THEN TRUE
  ELSE IF cur = NoScope \/ cur \in seen THEN FALSE
  ELSE ReachesPlatform(ps, ps[cur], seen \cup {cur})

\* the scope object s exists before and after the step
Stays(s) == s = Platform \/ (status[s] = "live" /\ status'[s] = "live")

\* the file set or the parent link of scope t changes in the step
LinkOrFilesChange(t) ==
  \/ Range(files'[t]) # Range(files[t])
  \/ parentScope'[t] # parentScope[t]

\* C1: a change to the file set or parent link of a scope or of one of its
\* ancestors leaves the scope with isValidated false
C1_ChangeResetsIsValidated ==
  [][\A s \in ScopeIds :
       (/\ Stays(s)
        /\ \E t \in {s} \cup ScopeAncestors(parentScope, s)
                        \cup ScopeAncestors(parentScope', s) :
             LinkOrFilesChange(t))
       => ~isValidated'[s]]_vars

\* C2: when getDiagnostics() returns, the scope and every scope on its parent
\* chain are validated
C2_GetDiagnosticsValidated ==
  lastCall.op = "getDiagnostics" =>
    /\ isValidated[lastCall.scope]
    /\ \A a \in ScopeAncestors(parentScope, lastCall.scope) : isValidated[a]

\* C3: a scope that gained, replaced or lost a member file during a call
\* emitted 'invalidated' during that call
C3_MembershipChangeEmits == changed \subseteq emitted

\* C4: when isValidated of a scope becomes false in a call, every scope that
\* has it on its parent chain has isValidated false when the call returns
C4_InvalidationReachesDescendants ==
  [][\A p \in AllScopes : \A s \in ScopeIds :
       (/\ Stays(p) /\ Stays(s)
        /\ isValidated[p] /\ ~isValidated'[p]
        /\ p \in ScopeAncestors(parentScope', s))
       => ~isValidated'[s]]_vars

\* C5: every registered file for which the membership predicate of an attached
\* scope holds is in the file set of that scope
C5_MembersMatchPredicate ==
  \A s \in ScopeIds : \A f \in Range(progFiles) :
    (status[s] = "live" /\ Matcher(Cur, s, f)) => HasFile(Cur, s, f)

\* C6: the parent links of the attached scopes form a tree rooted at the
\* platform scope, and a descriptor scope without resolved parent has the
\* platform scope as parent
C6_ParentLinksFormTree ==
  \A s \in ScopeIds :
    status[s] = "live" =>
      /\ ReachesPlatform(parentScope, s, {})
      /\ xmlParent[s] = NoFile => parentScope[s] = Platform

\* C7: validate() returns (it does not exhaust the stack)
C7_ValidateTerminates == lastCall.op = "validate" => ~lastCall.threw

\* validate() on every attached scope
ValidateAll(st) ==
  FoldL(LAMBDA acc, s :
          IF s = Platform \/ acc.status[s] = "live"
            THEN [ValidateCall(acc, s, FALSE, 1) EXCEPT !.threw = FALSE]
            ELSE acc,
        st, << Platform, "x1", "x2", "x3", "x4" >>)

\* what the claims compare of a program state: the attached scopes, their file
\* sets, their parent links and, after validation, their diagnostics
FinalView(st) ==
  LET v == ValidateAll(st)
      live == {s \in ScopeIds : st.status[s] = "live"}
  IN  [ scopes |-> live,
        files |-> [s \in ScopeIds |-> IF s \in live THEN Range(st.files[s]) ELSE {}],
        parent |-> [s \in ScopeIds |-> IF s \in live THEN st.parentScope[s] ELSE NoScope],
        diags |-> [s \in ScopeIds |-> IF s \in live THEN Range(v.diagnostics[s]) ELSE {}] ]

\* the orders in which the files of S can be added
Orders(S) ==
  {q \in [1..Cardinality(S) -> S] :
     \A i, j \in 1..Cardinality(S) : i # j => q[i] # q[j]}

\* the program after adding the files of q, in that order, to an empty program
AddAll(q) == FoldL(ProgramAddFile, InitState, q)

\* C8: whatever the order in which a set of files is added, the scopes, their
\* file sets, their parent links and their diagnostics end up the same
C8_AddOrderIrrelevant ==
  steps = Len(progFiles) =>
    \A q \in Orders(Range(progFiles)) : FinalView(AddAll(q)) = FinalView(Cur)

\* C9: adding a file and removing it again leaves the file sets, parent links
\* and diagnostics of every scope as they were
C9_AddThenRemoveIsNeutral ==
  \A f \in FileIds \ Range(progFiles) :
    FinalView(ProgramRemoveFile(ProgramAddFile(Cur, f), f)) = FinalView(Cur)

\* C10: a disposed scope has no listener left on the program, on its descriptor
\* file or on the 'invalidated' event of any scope
C10_DisposeRemovesListeners ==
  \A s \in ScopeIds :
    status[s] = "disposed" =>
      /\ s \notin Range(scopeOrder)
      /\ ~xmlHandles[s]
      /\ \A p \in AllScopes : listeners[p][s] = 0

\* C11: when a descriptor is added whose componentName equals the parentName of
\* an attached descriptor scope without resolved parent, then after the call the
\* descriptor's parent is the added file, the scope is not validated and its
\* parentScope is the scope of the added file
C11_FileAddedAttachesParent ==
  [][\A s \in ScopeIds : \A f \in XmlIds :
       (/\ lastCall'.op = "addFile" /\ lastCall'.file = f
        /\ status[s] = "live"
        /\ xmlParent[s] = NoFile
        /\ ParentName(s) # ""
        /\ ComponentName(f) = ParentName(s))
       => (/\ xmlParent'[s] = f
           /\ ~isValidated'[s]
           /\ parentScope'[s] = f
           /\ status'[f] = "live")]_vars

\* C11 witness: the last call added a descriptor that an earlier attached scope
\* was waiting for, and that scope now has it as parent
C11_Witness ==
  /\ lastCall.op = "addFile"
  /\ \E s \in ScopeIds \ {lastCall.file} :
       /\ status[s] = "live"
       /\ ComponentName(lastCall.file) = ParentName(s)
       /\ xmlParent[s] = lastCall.file
       /\ parentScope[s] = lastCall.file

\* C12: when a descriptor is removed whose componentName equals the parentName
\* of another attached descriptor scope, then after the call that descriptor has
\* no resolved parent, the scope's parentScope is the platform scope and the
\* scope is not validated
C12_FileRemovedDetachesParent ==
  [][\A s \in ScopeIds : \A f \in XmlIds \ {s} :
       (/\ lastCall'.op = "removeFile" /\ lastCall'.file = f
        /\ status[s] = "live"
        /\ ComponentName(f) = ParentName(s))
       => (/\ xmlParent'[s] = NoFile
           /\ parentScope'[s] = Platform
           /\ ~isValidated'[s])]_vars

\* C12 witness: the last call removed the descriptor another attached scope
\* names as parent; that scope is back on the platform scope
C12_Witness ==
  /\ lastCall.op = "removeFile"
  /\ \E s \in ScopeIds \ {lastCall.file} :
       /\ status[s] = "live"
       /\ lastCall.file \in XmlIds
       /\ ComponentName(lastCall.file) = ParentName(s)
       /\ xmlParent[s] = NoFile
       /\ parentScope[s] = Platform
       /\ ~isValidated[s]

\* C13: when a scope that stays attached goes from a parent p back to the
\* platform scope (detachParent), no listener of it is left on p; the platform
\* scope itself never gets a parent
C13_DetachRemovesSubscriptions ==
  [][/\ \A s \in ScopeIds : \A p \in ScopeIds :
          (/\ Stays(s)
           /\ parentScope[s] = p
           /\ parentScope'[s] = Platform)
          => listeners'[p][s] = 0
     /\ parentScope'[Platform] = parentScope[Platform]]_vars

\* C14: a scope whose descriptor got parent p in a call has p's scope as
\* parentScope, and is not validated if p is not; and whenever p emits
\* 'invalidated' in a call during which p stays the parent, the scope is not
\* validated when the call returns
C14_AttachParentScopeSubscribes ==
  [][\A s \in ScopeIds : \A p \in ScopeIds :
       /\ (/\ status'[s] = "live"
           /\ xmlParent'[s] = p
           /\ (xmlParent[s] # p \/ status[s] # "live"))
          => (/\ parentScope'[s] = p
              /\ ~isValidated'[p] => ~isValidated'[s])
       /\ (/\ Stays(s)
           /\ parentScope[s] = p /\ parentScope'[s] = p
           /\ p \in emitted')
          => ~isValidated'[s]]_vars

\* C14 witness: the last call made a parent scope emit 'invalidated' and did not
\* touch the files of its child, which is not validated any more
C14_Witness ==
  /\ lastCall.op = "removeFile"
  /\ \E s \in ScopeIds : \E p \in ScopeIds :
       /\ status[s] = "live" /\ status[p] = "live"
       /\ parentScope[s] = p
       /\ p \in emitted
       /\ s \notin changed
       /\ ~isValidated[s]

\* C15: a lookup that is built equals the lookup built from the member files
\* the scope has now, so a read never returns a stale lookup
C15_LookupsNeverStale ==
  \A s \in AllScopes :
    /\ lookups[s].ns.built => lookups[s].ns.val = BuildNamespaceLookup(Cur, s)
    /\ lookups[s].cls.built => lookups[s].cls.val = BuildClassLookup(Cur, s)

\* C15 witness: after several calls a read of namespaceLookup returns the
\* namespaces of a member code file
C15_Witness ==
  /\ lastCall.op = "namespaceLookup"
  /\ steps >= 4
  /\ lastCall.scope \in ScopeIds
  /\ status[lastCall.scope] = "live"
  /\ lookups[lastCall.scope].ns.built
  /\ Len(lookups[lastCall.scope].ns.val) >= 2
  /\ \E f \in BrsIds : HasFile(Cur, lastCall.scope, f)

\* the state after validate() on scope s, run on the current state with s not
\* yet validated
Fresh(s) == ValidateCall([Cur EXCEPT !.isValidated[s] = FALSE], s, FALSE, 1)

\* s is attached and its validation returns
CanValidate(s) == (s = Platform \/ status[s] = "live") /\ ~Fresh(s).threw

\* the diagnostics of one kind, in the order they were produced
OfCode(ds, code) == SelectSeq(ds, LAMBDA d : d.code = code)

\* the declarations of callables in the member files of scope t: file and index
Decls(t) ==
  UNION {{<< f, i >> : i \in 1..Len(Callables(f))} : f \in Range(files[t])}

DeclName(d) == Callables(d[1])[d[2]].name

\* the lower-cased names of the callables declared in the member files of t
DeclaredNames(t) == {ToLowerCase(DeclName(d)) : d \in Decls(t)}

\* the lower-cased names of the callables of s and of all scopes on its parent chain
ChainNames(s) ==
  UNION {DeclaredNames(t) : t \in {s} \cup ScopeAncestors(parentScope, s)}

\* the lower-cased names of the callables of the ancestors of s, platform excluded
AncestorNames(s) ==
  UNION {DeclaredNames(t) : t \in ScopeAncestors(parentScope, s) \ {Platform, s}}

\* C16: for a descriptor scope and a lower-cased name with k own declarations,
\* validate() gives k duplicate-function-implementation diagnostics, one on each
\* own declaration, when k > 1 and none when k <= 1, whatever the ancestors and
\* the platform scope declare
C16_DuplicatesFlagEveryOwn ==
  \A s \in ScopeIds :
    CanValidate(s) =>
      LET dups == OfCode(Fresh(s).diagnostics[s], "duplicateFunctionImplementation") IN
      \A n \in ChainNames(s) :
        LET own == {d \in Decls(s) : ToLowerCase(DeclName(d)) = n}
            k == Cardinality(own)
            forName == SelectSeq(dups, LAMBDA d : ToLowerCase(d.at) = n)
        IN  /\ Len(forName) = IF k > 1 THEN k ELSE 0
            /\ k > 1 =>
                 \A d \in own :
                   \E i \in 1..Len(forName) :
                     forName[i].file = d[1] /\ forName[i].at = DeclName(d)
            /\ \A i \in 1..Len(dups) : ToLowerCase(dups[i].at) \in ChainNames(s)

\* C16 witness: the scope validated last has two own declarations of one name,
\* an ancestor that declares the name too, and two duplicate diagnostics
C16_Witness ==
  /\ lastCall.op = "validate" /\ ~lastCall.threw
  /\ lastCall.scope \in ScopeIds
  /\ isValidated[lastCall.scope]
  /\ "foo" \in AncestorNames(lastCall.scope)
  /\ Cardinality({d \in Decls(lastCall.scope) : ToLowerCase(DeclName(d)) = "foo"}) = 2
  /\ Len(OfCode(diagnostics[lastCall.scope], "duplicateFunctionImplementation")) = 2

\* C17: validate() gives one overrides-ancestor-function diagnostic for each own
\* declaration whose lower-cased name is not "init" and is declared by a
\* non-platform ancestor, and no other
C17_OverridesExactlyWhenAncestorDeclares ==
  \A s \in ScopeIds :
    CanValidate(s) =>
      LET ovr == OfCode(Fresh(s).diagnostics[s], "overridesAncestorFunction")
          expected == {d \in Decls(s) :
                         /\ ToLowerCase(DeclName(d)) # "init"
                         /\ ToLowerCase(DeclName(d)) \in AncestorNames(s)}
      IN  /\ Len(ovr) = Cardinality(expected)
          /\ \A d \in expected :
               \E i \in 1..Len(ovr) : ovr[i].file = d[1] /\ ovr[i].at = DeclName(d)

\* C17 witness: the scope validated last declares init and foo, an ancestor
\* declares both, a name is shared with the platform scope only, and there are
\* override diagnostics
C17_Witness ==
  /\ lastCall.op = "validate" /\ ~lastCall.threw
  /\ lastCall.scope \in ScopeIds
  /\ isValidated[lastCall.scope]
  /\ {"init", "foo"} \subseteq AncestorNames(lastCall.scope)
  /\ {"init", "foo", "len"} \subseteq DeclaredNames(lastCall.scope)
  /\ "len" \notin AncestorNames(lastCall.scope)
  /\ Len(OfCode(diagnostics[lastCall.scope], "overridesAncestorFunction")) > 0

\* the diagnostics of file f among ds
OfFile(ds, f) == SelectSeq(ds, LAMBDA d : d.file = f)

\* the declarations of callables of s and of all scopes on its parent chain
ChainDecls(s) ==
  UNION {Decls(t) : t \in {s} \cup ScopeAncestors(parentScope, s)}

\* C18: for every call in a member file validate() gives call-to-unknown-function
\* at the call exactly when the function scope has no variable named like the
\* callee and no callable of that lower-cased name is declared by the scope or
\* by a scope on its parent chain
C18_UnknownCallsExactly ==
  \A s \in ScopeIds :
    CanValidate(s) =>
      \A f \in Range(files[s]) :
        LET got == OfFile(OfCode(Fresh(s).diagnostics[s], "callToUnknownFunction"), f)
            unknown == SelectSeq(FunctionCalls(f),
                         LAMBDA c : /\ ~c.localVar
                                    /\ ToLowerCase(c.name) \notin ChainNames(s))
        IN  /\ Len(got) = Len(unknown)
            /\ \A i \in 1..Len(got) : got[i].at = unknown[i].name

\* C18 witness: the scope validated last has a call of an undeclared name with a
\* local variable of that name, a call of an undeclared name without one, and a
\* call that only an ancestor's callable makes known
C18_Witness ==
  /\ lastCall.op = "validate" /\ ~lastCall.threw
  /\ lastCall.scope \in ScopeIds
  /\ isValidated[lastCall.scope]
  /\ HasFile(Cur, lastCall.scope, "b2")
  /\ ~HasFile(Cur, lastCall.scope, "b1")
  /\ "cb" \notin ChainNames(lastCall.scope)
  /\ "bar" \in AncestorNames(lastCall.scope)
  /\ OfCode(diagnostics[lastCall.scope], "callToUnknownFunction") = << >>

\* the callable the argument count of a call is compared with: the first of the
\* name in the order of validate(), by file path and then by name
FirstDecl(s, n) ==
  CHOOSE d \in ChainDecls(s) :
    /\ ToLowerCase(DeclName(d)) = n
    /\ \A e \in ChainDecls(s) :
         ToLowerCase(DeclName(e)) = n =>
           \/ PathRank(d[1]) < PathRank(e[1])
           \/ PathRank(d[1]) = PathRank(e[1]) /\ NameRank(DeclName(d)) <= NameRank(DeclName(e))

\* the number of parameters of declaration d that are not optional
MinParams(d) ==
  Cardinality({i \in 1..Len(Callables(d[1])[d[2]].params) : ~Callables(d[1])[d[2]].params[i]})

MaxParams(d) == Len(Callables(d[1])[d[2]].params)

\* C19: for every call of a known callable validate() gives
\* mismatch-argument-count exactly when the number of arguments is below the
\* number of non-optional parameters or above the number of parameters; the
\* bound is "n" when both are equal and "min-max" otherwise, followed by the
\* number of arguments
C19_ArgumentCountExactly ==
  \A s \in ScopeIds :
    CanValidate(s) =>
      \A f \in Range(files[s]) :
        LET got == OfFile(OfCode(Fresh(s).diagnostics[s], "mismatchArgumentCount"), f)
            wrong == SelectSeq(FunctionCalls(f),
                       LAMBDA c :
                         /\ ToLowerCase(c.name) \in ChainNames(s)
                         /\ \/ c.args < MinParams(FirstDecl(s, ToLowerCase(c.name)))
                            \/ c.args > MaxParams(FirstDecl(s, ToLowerCase(c.name))))
        IN  /\ Len(got) = Len(wrong)
            /\ \A i \in 1..Len(got) :
                 LET d == FirstDecl(s, ToLowerCase(wrong[i].name)) IN
                 /\ got[i].at = wrong[i].name
                 /\ got[i].info =
                      (IF MinParams(d) = MaxParams(d)
                         THEN << NumText(MaxParams(d)) >>
                         ELSE << NumText(MinParams(d)), "-", NumText(MaxParams(d)) >>)
                      \o << NumText(wrong[i].args) >>

\* C19 witness: the scope validated last calls bar(a, b, c = 1) with one
\* argument and reports the bound 2-3 and the count 1
C19_Witness ==
  /\ lastCall.op = "validate" /\ ~lastCall.threw
  /\ lastCall.scope \in ScopeIds
  /\ isValidated[lastCall.scope]
  /\ \E i \in 1..Len(diagnostics[lastCall.scope]) :
       /\ diagnostics[lastCall.scope][i].code = "mismatchArgumentCount"
       /\ diagnostics[lastCall.scope][i].at = "bar"
       /\ diagnostics[lastCall.scope][i].info = << "2", "-", "3", "1" >>

\* the shadowing diagnostic of a variable declaration v in scope s: its code and
\* what it names, or none
Shadowing(s, v) ==
  LET n == ToLowerCase(v.name)
      platformName == n \in DeclaredNames(Platform)
  IN  IF v.isFunction /\ platformName
        THEN << [code |-> "localVarFunctionShadowsParentFunction", info |-> << "stdlib" >>] >>
      ELSE IF v.isFunction /\ n \in ChainNames(s)
        THEN << [code |-> "localVarFunctionShadowsParentFunction", info |-> << "scope" >>] >>
      ELSE IF ~v.isFunction /\ n \in ChainNames(s) /\ ~platformName
        THEN << [code |-> "localVarShadowedByScopedFunction", info |-> << >>] >>
      ELSE << >>

\* C20: for every variable declaration of a member file validate() gives at most
\* one shadowing diagnostic: stdlib for a function-typed variable with a
\* platform name, scope for a function-typed variable named like a callable of
\* the chain, shadowed-by-scoped-function for another variable named like a
\* callable of the chain that is no platform name, and none otherwise
C20_ShadowingExactly ==
  \A s \in ScopeIds :
    CanValidate(s) =>
      \A f \in Range(files[s]) :
        LET all == OfFile(Fresh(s).diagnostics[s], f)
            got == SelectSeq(all, LAMBDA d :
                     d.code \in {"localVarFunctionShadowsParentFunction",
                                 "localVarShadowedByScopedFunction"})
            vs == VariableDeclarations(f)
            expected ==
              FoldL(LAMBDA acc, v :
                      acc \o [i \in 1..Len(Shadowing(s, v)) |->
                                [code |-> Shadowing(s, v)[i].code, at |-> v.name,
                                 info |-> Shadowing(s, v)[i].info]],
                    << >>, vs)
        IN  /\ Len(got) = Len(expected)
            /\ \A i \in 1..Len(got) :
                 /\ got[i].code = expected[i].code
                 /\ got[i].at = expected[i].at
                 /\ got[i].info = expected[i].info

\* C20 witness: the scope validated last reports all three kinds of shadowing
\* and has a variable with a platform name that is not reported
C20_Witness ==
  /\ lastCall.op = "validate" /\ ~lastCall.threw
  /\ lastCall.scope \in ScopeIds
  /\ isValidated[lastCall.scope]
  /\ HasFile(Cur, lastCall.scope, "b2")
  /\ \E i \in 1..Len(diagnostics[lastCall.scope]) :
       diagnostics[lastCall.scope][i].info = << "stdlib" >>
  /\ \E i \in 1..Len(diagnostics[lastCall.scope]) :
       diagnostics[lastCall.scope][i].info = << "scope" >>
  /\ \E i \in 1..Len(diagnostics[lastCall.scope]) :
       diagnostics[lastCall.scope][i].code = "localVarShadowedByScopedFunction"

\* the package paths descriptor x imports itself
OwnPaths(x) == {ScriptTagImports(x)[i].pkgPath : i \in 1..Len(ScriptTagImports(x))}

\* the places in the parents-first list of resolved ancestors of s whose
\* descriptor imports the path
ImportingAncestors(s, path) ==
  {k \in 1..Len(XmlAncestors(Cur, s)) : path \in OwnPaths(XmlAncestors(Cur, s)[k])}

\* the nearest resolved ancestor of s that imports the path
NearestImporter(s, path) ==
  XmlAncestors(Cur, s)[CHOOSE k \in ImportingAncestors(s, path) :
                         \A j \in ImportingAncestors(s, path) : k <= j]

\* C21: validate() on a descriptor scope gives one duplicate-ancestor-script-import
\* warning, at the import, for each own script import whose package path a
\* resolved ancestor imports too, naming the component of the nearest such
\* ancestor; other imports, and descriptors without a resolved parent, give none
C21_DuplicateAncestorImportsNameNearest ==
  \A s \in ScopeIds :
    CanValidate(s) =>
      LET got == OfCode(Fresh(s).diagnostics[s], "unnecessaryScriptImportInChildFromParent")
          shared == SelectSeq(ScriptTagImports(s),
                      LAMBDA r : ImportingAncestors(s, r.pkgPath) # {})
      IN  /\ Len(got) = Len(shared)
          /\ xmlParent[s] = NoFile => got = << >>
          /\ \A i \in 1..Len(got) :
               /\ got[i].file = s
               /\ got[i].at = shared[i].pkgPath
               /\ got[i].info = << ComponentName(NearestImporter(s, shared[i].pkgPath)) >>

\* C21 witness: the scope validated last imports a path that its parent and its
\* grandparent import, and names the parent; the parent, validated by the same
\* call, has warnings for the two imports it shares with the grandparent and
\* none for its other two
C21_Witness ==
  /\ lastCall.op = "validate" /\ ~lastCall.threw
  /\ lastCall.scope \in ScopeIds
  /\ isValidated[lastCall.scope]
  /\ Cardinality(ImportingAncestors(lastCall.scope, "lib")) >= 2
  /\ OfCode(diagnostics[lastCall.scope], "unnecessaryScriptImportInChildFromParent")
       = << Diag("unnecessaryScriptImportInChildFromParent", lastCall.scope, "lib",
                 << ComponentName(xmlParent[lastCall.scope]) >>) >>
  /\ LET p == xmlParent[lastCall.scope] IN
     /\ isValidated[p]
     /\ Len(ScriptTagImports(p)) = 4
     /\ Len(OfCode(diagnostics[p], "unnecessaryScriptImportInChildFromParent")) = 2

\* the member files of s whose package path is the path, letter case ignored
MembersAt(s, path) ==
  {f \in Range(files[s]) : ToLowerCase(PkgPath(f)) = ToLowerCase(path)}

\* the outcome of the path check for one script import of s: the code of the
\* diagnostic, or none
ImportOutcome(s, r) ==
  IF MembersAt(s, r.pkgPath) = {}
    THEN IF Trim(r.text) = "" THEN << "scriptSrcCannotBeEmpty" >>
         ELSE << "referencedFileDoesNotExist" >>
  ELSE IF \A f \in MembersAt(s, r.pkgPath) : PkgPath(f) # r.pkgPath
    THEN << "scriptImportCaseMismatch" >>
  ELSE << >>

\* C22: for every script import of a descriptor scope validate() gives exactly
\* one of: script-src-cannot-be-empty when no member file has the path (letter
\* case ignored) and the text of the tag is empty (nothing but white space);
\* referenced-file-does-not-exist when there is no such file and the text is
\* not empty; script-import-case-mismatch, naming the file's path, when the
\* file found differs from the import in letter case; nothing when the paths
\* are identical
C22_ImportPathOutcomes ==
  \A s \in ScopeIds :
    CanValidate(s) =>
      LET got == SelectSeq(Fresh(s).diagnostics[s], LAMBDA d :
                   d.code \in {"scriptSrcCannotBeEmpty", "referencedFileDoesNotExist",
                               "scriptImportCaseMismatch"})
          flagged == SelectSeq(ScriptTagImports(s), LAMBDA r : ImportOutcome(s, r) # << >>)
      IN  /\ Len(got) = Len(flagged)
          /\ \A i \in 1..Len(got) :
               /\ got[i].file = s
               /\ got[i].at = flagged[i].pkgPath
               /\ got[i].code = ImportOutcome(s, flagged[i])[1]
               /\ got[i].code = "scriptImportCaseMismatch" =>
                    /\ got[i].info # << flagged[i].pkgPath >>
                    /\ \E f \in MembersAt(s, flagged[i].pkgPath) : got[i].info = << PkgPath(f) >>

\* C22 witness: the scope validated last has an import whose file is a member
\* under the same path, two imports without a file, and a blank import; another
\* validated scope imports a member file under a path in another letter case;
\* each has the diagnostics of its case
C22_Witness ==
  /\ lastCall.op = "validate" /\ ~lastCall.threw
  /\ lastCall.scope = "x2"
  /\ isValidated["x2"] /\ isValidated["x4"]
  /\ status["x4"] = "live"
  /\ files["x2"] = << "x2", "b2" >>
  /\ "b2" \in Range(files["x4"])
  /\ SelectSeq(diagnostics["x2"], LAMBDA d : d.file = "x2")
       = << Diag("referencedFileDoesNotExist", "x2", "b1", << >>),
            Diag("referencedFileDoesNotExist", "x2", "lib", << >>),
            Diag("scriptSrcCannotBeEmpty", "x2", "", << >>) >>
  /\ Diag("scriptImportCaseMismatch", "x4", "B2", << "b2" >>) \in Range(diagnostics["x4"])

\* what a read of scope.namespaceLookup returns in the current state
ReadNamespaceLookup(s) == NamespaceLookup(Cur, s).lookups[s].ns.val

\* C23: for every namespace declared in a member file the namespace lookup has
\* a key for every lower-cased prefix of its dotted name, and every key of more
\* than one part is listed in the entry of its parent key under its last part,
\* the link leading to the entry stored under the key itself
C23_NamespaceLookupClosed ==
  \A s \in AllScopes :
    LET lk == ReadNamespaceLookup(s) IN
    /\ \A f \in Range(files[s]) :
         \A i \in 1..Len(NamespaceStatements(f)) :
           \A n \in 1..Len(NamespaceStatements(f)[i].name) :
             HasEntry(lk, LowerParts(SubSeq(NamespaceStatements(f)[i].name, 1, n)))
    /\ \A k \in 1..Len(lk) :
         LET key == lk[k].key IN
         Len(key) > 1 =>
           /\ HasEntry(lk, SubSeq(key, 1, Len(key) - 1))
           /\ LET up == lk[GetEntry(lk, SubSeq(key, 1, Len(key) - 1))].value.namespaces IN
              /\ HasEntry(up, key[Len(key)])
              /\ HasEntry(lk, up[GetEntry(up, key[Len(key)])].value)
              /\ lk[GetEntry(lk, up[GetEntry(up, key[Len(key)])].value)] = lk[k]

\* C23 witness: the lookup read last is that of a descriptor scope with a member
\* file that declares a namespace of three parts, written in mixed letter case
C23_Witness ==
  /\ lastCall.op = "namespaceLookup"
  /\ lastCall.scope \in ScopeIds
  /\ lookups[lastCall.scope].ns.built
  /\ HasFile(Cur, lastCall.scope, "b2")
  /\ HasEntry(lookups[lastCall.scope].ns.val, << "namea", "nameb", "namec" >>)
  /\ HasEntry(lookups[lastCall.scope].ns.val, << "namea", "nameb" >>)
  /\ HasEntry(lookups[lastCall.scope].ns.val, << "namea" >>)

\* the scopes from s along the parent links, s first; a scope met a second
\* time ends the walk
RECURSIVE ChainFrom(_, _, _)
ChainFrom(ps, cur, seen) ==
  IF cur = NoScope \/ cur \in seen THEN << >>
  ELSE << cur >> \o ChainFrom(ps, ps[cur], seen \cup {cur})

\* the places on the chain of s of the scopes that declare the lower-cased name
DeclaringPlaces(s, n) ==
  {k \in 1..Len(ChainFrom(parentScope, s, {})) :
     n \in DeclaredNames(ChainFrom(parentScope, s, {})[k])}

\* the place of scope t on the chain of s
PlaceOf(s, t) ==
  CHOOSE k \in 1..Len(ChainFrom(parentScope, s, {})) : ChainFrom(parentScope, s, {})[k] = t

\* C24: getAllCallables() is the own callables followed by the parent's
\* getAllCallables(), so its callables come in the order of the parent chain;
\* getCallableByName(name) returns a callable of that name, letter case
\* ignored, declared by the nearest scope of the chain that declares one, and
\* nothing when no scope of the chain declares the name
C24_NearestCallableWins ==
  \A s \in LiveScopes :
    GetAllCallables(Cur, s, 1).ok =>
      LET all == GetAllCallables(Cur, s, 1).val
          chain == ChainFrom(parentScope, s, {})
      IN  /\ SubSeq(all, 1, Len(GetOwnCallables(Cur, s))) = GetOwnCallables(Cur, s)
          /\ parentScope[s] # NoScope =>
               SubSeq(all, Len(GetOwnCallables(Cur, s)) + 1, Len(all))
                 = GetAllCallables(Cur, parentScope[s], 1).val
          /\ \A i, j \in 1..Len(all) :
               i < j => PlaceOf(s, all[i].scope) <= PlaceOf(s, all[j].scope)
          /\ \A name \in QueriedNames :
               LET r == GetCallableByName(Cur, s, name, 1).val
                   places == DeclaringPlaces(s, ToLowerCase(name))
               IN  IF places = {} THEN r = << >>
                   ELSE /\ Len(r) = 1
                        /\ ToLowerCase(r[1].name) = ToLowerCase(name)
                        /\ r[1].file \in Range(files[r[1].scope])
                        /\ \A k \in places : PlaceOf(s, r[1].scope) <= k

\* C24 witness: the scope asked last declares Foo, its parent declares foo and
\* Foo, all three scopes of the chain declare len, only the parent declares
\* bar, nobody declares missing; the answers are the scope's own Foo and len,
\* the parent's bar, and nothing
C24_Witness ==
  /\ lastCall.op = "getCallableByName" /\ ~lastCall.threw
  /\ lastCall.scope \in ScopeIds
  /\ parentScope[lastCall.scope] \in ScopeIds
  /\ 1 \in DeclaringPlaces(lastCall.scope, "foo")
  /\ 2 \in DeclaringPlaces(lastCall.scope, "foo")
  /\ DeclaringPlaces(lastCall.scope, "len") = {1, 2, 3}
  /\ DeclaringPlaces(lastCall.scope, "bar") = {2}
  /\ GetCallableByName(Cur, lastCall.scope, "foo", 1).val
       = << [name |-> "Foo", params |-> << >>, file |-> "b2", scope |-> lastCall.scope] >>
  /\ GetCallableByName(Cur, lastCall.scope, "len", 1).val[1].scope = lastCall.scope
  /\ GetCallableByName(Cur, lastCall.scope, "bar", 1).val[1].scope = parentScope[lastCall.scope]
  /\ GetCallableByName(Cur, lastCall.scope, "missing", 1).val = << >>

\* program state st has the scopes, member files and parent links of the
\* current state
SameScopeGraph(st) ==
  /\ st.status = status
  /\ st.parentScope = parentScope
  /\ st.xmlParent = xmlParent
  /\ \A t \in AllScopes : Range(st.files[t]) = Range(files[t])

\* C25: when the files of the program, added in another order, give the same
\* scopes with the same member files and the same ancestors, validate() gives
\* every scope the same sequence of diagnostics
C25_DiagnosticOrderIndependent ==
  \A q \in Orders(Range(progFiles)) :
    SameScopeGraph(AddAll(q)) =>
      \A s \in ScopeIds :
        CanValidate(s) =>
          ValidateCall([AddAll(q) EXCEPT !.isValidated[s] = FALSE], s, FALSE, 1).diagnostics[s]
            = Fresh(s).diagnostics[s]

\* the lower-cased parts of p are the first parts of the lower-cased parts of n
PartsPrefix(p, n) ==
  Len(p) <= Len(n) /\ LowerParts(SubSeq(n, 1, Len(p))) = LowerParts(p)

\* C26: isKnownNamespace(name) is true exactly when a member file of the scope
\* declares a namespace whose dotted name, letter case ignored, is the name or
\* the name followed by "." and more; a declared name that only begins with
\* the same letters, and the namespaces of ancestor scopes, do not count
C26_KnownNamespaceExactly ==
  \A s \in LiveScopes :
    \A name \in QueriedNamespaces :
      IsKnownNamespace(Cur, s, DottedName(name))
        <=> \E f \in Range(files[s]) :
              \E k \in 1..Len(NamespaceStatements(f)) :
                PartsPrefix(name, NamespaceStatements(f)[k].name)

\* C26 witness: the scope asked last has b1 as its only code file and a parent;
\* NameA and namea.nameb are known to it, NameA.Name and NameB are not, and
\* NameA.NameB.NameC, which only b2 declares, is known to the parent alone
C26_Witness ==
  /\ lastCall.op = "isKnownNamespace"
  /\ lastCall.scope \in ScopeIds
  /\ parentScope[lastCall.scope] \in ScopeIds
  /\ HasFile(Cur, lastCall.scope, "b1") /\ ~HasFile(Cur, lastCall.scope, "b2")
  /\ IsKnownNamespace(Cur, lastCall.scope, DottedName(<< "NameA" >>))
  /\ IsKnownNamespace(Cur, lastCall.scope, DottedName(<< "namea", "nameb" >>))
  /\ ~IsKnownNamespace(Cur, lastCall.scope, DottedName(<< "NameA", "Name" >>))
  /\ ~IsKnownNamespace(Cur, lastCall.scope, DottedName(<< "NameB" >>))
  /\ ~IsKnownNamespace(Cur, lastCall.scope, DottedName(<< "NameA", "NameB", "NameC" >>))
  /\ IsKnownNamespace(Cur, parentScope[lastCall.scope],
                      DottedName(<< "NameA", "NameB", "NameC" >>))

\* the kinds of a token list
Kinds(ts) == [i \in 1..Len(ts) |-> ts[i].kind]

AllNewlines(k, i, j) == \A m \in i..j : k[m] = "Newline"

\* a comma, one or more newlines, or a comma followed by newlines
IsSeparator(k, i, j) ==
  i <= j /\ k[i] \in {"Comma", "Newline"} /\ AllNewlines(k, i + 1, j)

\* the shapes of the tokens i..j of k: an item, items with separators between
\* them, an array literal
RECURSIVE IsItem(_, _, _)
RECURSIVE IsItems(_, _, _)
RECURSIVE IsArrayShape(_, _, _)
IsItem(k, i, j) ==
  \/ i = j /\ k[i] \in {"IntegerLiteral", "False"}
  \/ i < j /\ k[i] = "Not" /\ IsItem(k, i + 1, j)
  \/ \E m \in (i + 1)..(j - 1) :
       k[m] = "Plus" /\ IsItem(k, i, m - 1) /\ IsItem(k, m + 1, j)
  \/ IsArrayShape(k, i, j)

IsItems(k, i, j) ==
  \/ IsItem(k, i, j)
  \/ \E m \in i..(j - 2) :
       \E n \in (m + 2)..j :
         IsSeparator(k, m + 1, n - 1) /\ IsItem(k, i, m) /\ IsItems(k, n, j)

IsArrayShape(k, i, j) ==
  /\ i < j
  /\ k[i] = "LeftSquareBracket"
  /\ k[j] = "RightSquareBracket"
  /\ \/ AllNewlines(k, i + 1, j - 1)
     \/ \E a \in (i + 1)..(j - 1) :
          \E b \in a..(j - 1) :
            /\ AllNewlines(k, i + 1, a - 1)
            /\ AllNewlines(k, b + 1, j - 1)
            /\ IsItems(k, a, b)

\* the token list is "_ =", an array literal of the shapes above, end of file
IsArrayAssignment(ts) ==
  /\ Len(ts) >= 5
  /\ ts[1].kind = "Identifier"
  /\ ts[2].kind = "Equal"
  /\ ts[Len(ts)].kind = "Eof"
  /\ IsArrayShape(Kinds(ts), 3, Len(ts) - 1)

\* C27: an assignment whose value is an array literal is parsed without
\* diagnostics into at least one statement, the literal being its value,
\* when the brackets are empty, with or without newlines between them, when
\* the items are separated by commas, by newlines or by a comma followed by
\* newlines, when items are array literals and when items are expressions
C27_ArrayLiteralShapesAccepted ==
  (parsed.done /\ IsArrayAssignment(tokens)) =>
    /\ parsed.diagnostics = << >>
    /\ Len(parsed.statements) >= 1
    /\ parsed.statements[1].value.kind = "ArrayLiteralExpression"

\* C27 witness: the list with all separators, a nested array and expressions
\* has been parsed into one assignment of an array of three items
C27_Witness ==
  /\ parsed.done
  /\ tokens = MixedTokens
  /\ IsArrayAssignment(tokens)
  /\ parsed.diagnostics = << >>
  /\ Len(parsed.statements) = 1
  /\ Len(parsed.statements[1].value.elements) = 3
  /\ parsed.statements[1].value.elements[1].kind = "ArrayLiteralExpression"
  /\ parsed.statements[1].value.elements[1].elements[1].kind = "BinaryExpression"

\* the ranges of the array literals in and below a node
RECURSIVE ArrayRanges(_)
ArrayRanges(node) ==
  (IF node.kind = "ArrayLiteralExpression" THEN {node.range} ELSE {})
  \cup UNION {ArrayRanges(node.elements[i]) : i \in 1..Len(node.elements)}

\* opening brackets less closing brackets among the tokens i..j
Depth(k, i, j) ==
  Cardinality({m \in i..j : k[m] = "LeftSquareBracket"})
  - Cardinality({m \in i..j : k[m] = "RightSquareBracket"})

\* the place of the bracket that closes the one at place i
Closer(k, i) ==
  CHOOSE j \in (i + 1)..Len(k) :
    Depth(k, i, j) = 0 /\ \A m \in i..(j - 1) : Depth(k, i, m) > 0

\* C28: in a token list parsed without diagnostics the ranges of the array
\* literals are the ranges from the start of an opening bracket to the end of
\* the bracket that closes it, however many newlines lie between them; the
\* list with brackets at (0,4)-(0,9) and at (2,4)-(5,1) gives two statements,
\* no diagnostics and these two ranges
C28_ArrayLiteralRangeSpansBrackets ==
  /\ (parsed.done /\ parsed.diagnostics = << >>) =>
       UNION {ArrayRanges(parsed.statements[i].value) : i \in 1..Len(parsed.statements)}
         = {SpanRange(tokens[o].range, tokens[Closer(Kinds(tokens), o)].range) :
              o \in {i \in 1..Len(tokens) : tokens[i].kind = "LeftSquareBracket"}}
  /\ (parsed.done /\ tokens = LocationTrackingTokens) =>
       /\ parsed.diagnostics = << >>
       /\ Len(parsed.statements) = 2
       /\ parsed.statements[1].value.range = << 0, 4, 0, 9 >>
       /\ parsed.statements[2].value.range = << 2, 4, 5, 1 >>

\* C28 witness: the list of the location test has been parsed into two
\* assignments of array literals
C28_Witness ==
  /\ parsed.done
  /\ tokens = LocationTrackingTokens
  /\ Len(parsed.statements) = 2
  /\ parsed.statements[1].value.kind = "ArrayLiteralExpression"
  /\ parsed.statements[2].value.range = << 2, 4, 5, 1 >>

\* C29: when validate() has returned on a scope, the scope and every scope on
\* its parent chain are validated
C29_ValidateLeavesChainValidated ==
  (lastCall.op = "validate" /\ ~lastCall.threw) =>
    /\ isValidated[lastCall.scope]
    /\ \A t \in ScopeAncestors(parentScope, lastCall.scope) : isValidated[t]

\* the steps of the last call
Trace == lastCall.trace

\* step i begins a run of validate() on scope s whose parent is not validated
BeginsWithParentDirty(i, s) ==
  /\ Trace[i].ev = "begin"
  /\ Trace[i].scope = s
  /\ parentScope[s] # NoScope
  /\ ~Trace[i].validated[parentScope[s]]

\* C30: in a run of validate() on a scope whose parent is not validated,
\* the parent's isValidated becomes true before the diagnostics of the scope
\* are cleared, and the scope's isValidated becomes true only after they are
\* cleared; the diagnostics of a scope are never cleared while its parent is
\* not validated
C30_AncestorsBeforeDescendants ==
  /\ \A i \in 1..Len(Trace) :
       \A s \in AllScopes :
         BeginsWithParentDirty(i, s) =>
           \A k \in (i + 1)..Len(Trace) :
             /\ (Trace[k].ev = "clear" /\ Trace[k].scope = s) =>
                  \E j \in (i + 1)..(k - 1) :
                    /\ Trace[j].ev = "set"
                    /\ Trace[j].scope = parentScope[s]
                    /\ Trace[j].validated[parentScope[s]]
             /\ (Trace[k].ev = "set" /\ Trace[k].scope = s /\ Trace[k].validated[s]) =>
                  \E j \in (i + 1)..(k - 1) :
                    Trace[j].ev = "clear" /\ Trace[j].scope = s
  /\ \A k \in 1..Len(Trace) :
       (Trace[k].ev = "clear" /\ parentScope[Trace[k].scope] # NoScope) =>
         Trace[k].validated[parentScope[Trace[k].scope]]
  /\ (lastCall.op = "validate" /\ ~lastCall.threw) =>
       \A i \in 1..Len(Trace) :
         \A s \in AllScopes :
           BeginsWithParentDirty(i, s) =>
             \E k \in (i + 1)..Len(Trace) : Trace[k].ev = "clear" /\ Trace[k].scope = s

\* C30 witness: the last call validated a descriptor scope whose parent, a
\* descriptor scope too, and whose grandparent were not validated: the run of
\* the scope begins first and its diagnostics are cleared after the parent's
\* isValidated became true
C30_Witness ==
  /\ lastCall.op = "validate" /\ ~lastCall.threw
  /\ lastCall.scope \in ScopeIds
  /\ parentScope[lastCall.scope] \in ScopeIds
  /\ BeginsWithParentDirty(1, lastCall.scope)
  /\ ~Trace[1].validated[parentScope[parentScope[lastCall.scope]]]
  /\ \E j \in 1..Len(Trace) :
       \E k \in (j + 1)..Len(Trace) :
         /\ Trace[j].ev = "set" /\ Trace[j].scope = parentScope[lastCall.scope]
         /\ Trace[j].validated[parentScope[lastCall.scope]]
         /\ Trace[k].ev = "clear" /\ Trace[k].scope = lastCall.scope
  /\ isValidated[lastCall.scope]

\* the state after validate(true) on scope s, run on the current state
Forced(s) == ValidateCall(Cur, s, TRUE, 1)

\* the run noted in trace t cleared and recomputed the diagnostics of scope s
Reran(t, s) == \E i \in 1..Len(t) : t[i].ev = "clear" /\ t[i].scope = s

\* C31: on a validated scope, validate() changes nothing, and validate(true)
\* runs the pipeline again and leaves the diagnostics a validation of the
\* current state produces, for the platform scope and for descriptor scopes;
\* validate(true) on a scope runs the pipeline of its validated parent too
C31_ForceRevalidates ==
  \A s \in LiveScopes :
    isValidated[s] =>
      /\ ValidateCall(Cur, s, FALSE, 1) = Cur
      /\ ~Forced(s).threw =>
           /\ Reran(Forced(s).trace, s)
           /\ Forced(s).isValidated[s]
           /\ Forced(s).diagnostics[s] = Fresh(s).diagnostics[s]
      /\ \A c \in LiveScopes :
           (parentScope[c] = s /\ ~Forced(c).threw) => Reran(Forced(c).trace, s)

\* the places, on the chain of s, of the ancestors other than the platform scope
\* that declare the lower-cased name
AncestorPlaces(s, n) ==
  {k \in DeclaringPlaces(s, n) :
     k > 1 /\ ChainFrom(parentScope, s, {})[k] # Platform}

\* the ancestor of s nearest to it among those that declare the name
NearestDeclarer(s, n) ==
  ChainFrom(parentScope, s, {})[
    CHOOSE k \in AncestorPlaces(s, n) : \A j \in AncestorPlaces(s, n) : k <= j]

\* C32: every overrides-ancestor-function diagnostic of validate() names the
\* nearest ancestor scope, the platform scope left out, that declares the name,
\* and the path of a file of that scope which declares it
C32_OverrideNamesNearestAncestor ==
  \A s \in ScopeIds :
    CanValidate(s) =>
      LET ovr == OfCode(Fresh(s).diagnostics[s], "overridesAncestorFunction") IN
      \A i \in 1..Len(ovr) :
        LET n == ToLowerCase(ovr[i].at) IN
        /\ AncestorPlaces(s, n) # {}
        /\ ovr[i].info[3] = NearestDeclarer(s, n)
        /\ \E d \in Decls(NearestDeclarer(s, n)) :
             ToLowerCase(DeclName(d)) = n /\ ovr[i].info[2] = PkgPath(d[1])

\* what the checks of Scope.validate give for scope s in the current state
BaseDiagnostics(s) == ScopeDiagnostics(Cur, s, GetAllCallables(Cur, s, 1).val)

\* what the two checks of XmlScope.validate give for scope s in the current state
DescriptorDiagnostics(s) ==
  DiagnosticDetectDuplicateAncestorScriptImports(Cur, s)
    \o DiagnosticValidateScriptImportPaths(Cur, s)

\* C33: in a call of validate() that returns, every run of the base pipeline on
\* a descriptor scope (its diagnostics are cleared) is followed by the two
\* checks of the descriptor, made while isValidated is false, and by the
\* assignment isValidated = true that is in force when the call returns; the
\* diagnostics of the scope are then those of the base checks followed by those
\* of the descriptor checks, each once
C33_DescriptorChecksRunWithBase ==
  (lastCall.op = "validate" /\ ~lastCall.threw) =>
    \A s \in ScopeIds :
      \A k \in 1..Len(Trace) :
        (Trace[k].ev = "clear" /\ Trace[k].scope = s) =>
          /\ \E e \in (k + 1)..Len(Trace) :
               /\ Trace[e].ev = "extras" /\ Trace[e].scope = s
               /\ ~Trace[e].validated[s]
               /\ \A j \in (k + 1)..(e - 1) :
                    ~(Trace[j].ev = "clear" /\ Trace[j].scope = s)
               /\ \E t \in (e + 1)..Len(Trace) :
                    /\ Trace[t].ev = "set" /\ Trace[t].scope = s
                    /\ Trace[t].validated[s]
                    /\ \A j \in (t + 1)..Len(Trace) : Trace[j].scope # s
          /\ isValidated[s]
          /\ diagnostics[s] = BaseDiagnostics(s) \o DescriptorDiagnostics(s)

\* C33 witness: the last call validated a descriptor scope and, in the same
\* run, its parent descriptor scope; the diagnostics of the scope hold a call
\* to an unknown function from the base checks and a duplicate import and a
\* missing file from the descriptor checks
C33_Witness ==
  /\ lastCall.op = "validate" /\ ~lastCall.threw
  /\ lastCall.scope \in ScopeIds
  /\ parentScope[lastCall.scope] \in ScopeIds
  /\ Reran(Trace, lastCall.scope)
  /\ Reran(Trace, parentScope[lastCall.scope])
  /\ OfCode(diagnostics[lastCall.scope], "callToUnknownFunction") # << >>
  /\ OfCode(diagnostics[lastCall.scope], "unnecessaryScriptImportInChildFromParent") # << >>
  /\ OfCode(diagnostics[lastCall.scope], "referencedFileDoesNotExist") # << >>
  /\ DescriptorDiagnostics(lastCall.scope) # << >>
  /\ BaseDiagnostics(lastCall.scope) # << >>

\* the state after validate() on scope s, run on the current state with s not
\* validated and its list of diagnostics empty
FromEmpty(s) ==
  ValidateCall([Cur EXCEPT !.isValidated[s] = FALSE, !.diagnostics[s] = << >>],
               s, FALSE, 1)

\* the state after s is made not validated in state st and validate() is
\* called on it again
Again(st, s) ==
  ValidateCall([st EXCEPT !.isValidated[s] = FALSE, !.trace = << >>], s, FALSE, 1)

\* C34: whatever list of diagnostics a scope holds from earlier runs, a run of
\* validate() on it leaves the list a run from the empty list leaves, a second
\* run after an invalidation leaves that list again, and after a call of
\* validate() every scope whose pipeline ran holds that list
C34_DiagnosticsNeverAccumulate ==
  /\ \A s \in LiveScopes :
       LET fromEmpty == FromEmpty(s)
           fresh == Fresh(s)
       IN  ~fresh.threw =>
             /\ fresh.diagnostics[s] = fromEmpty.diagnostics[s]
             /\ Again(fresh, s).diagnostics[s] = fromEmpty.diagnostics[s]
  /\ (lastCall.op = "validate" /\ ~lastCall.threw) =>
       \A s \in AllScopes :
         Reran(Trace, s) => diagnostics[s] = FromEmpty(s).diagnostics[s]

\* C34 witness: the last call ran the pipeline on a descriptor scope that held
\* the diagnostics of an earlier run; one of them is gone, one is there again,
\* once, and a new one has come
C34_Witness ==
  /\ lastCall.op = "validate" /\ ~lastCall.threw
  /\ lastCall.scope \in ScopeIds
  /\ Len(Trace) > 0
  /\ Trace[1].ev = "begin" /\ Trace[1].scope = lastCall.scope
  /\ Trace[1].held # << >>
  /\ \E d \in Range(Trace[1].held) : d \notin Range(diagnostics[lastCall.scope])
  /\ \E d \in Range(Trace[1].held) :
       Len(SelectSeq(diagnostics[lastCall.scope], LAMBDA e : e = d)) = 1
  /\ \E d \in Range(diagnostics[lastCall.scope]) : d \notin Range(Trace[1].held)
  /\ diagnostics[lastCall.scope] = FromEmpty(lastCall.scope).diagnostics[lastCall.scope]

\* the own declarations of scope s with the lower-cased name n
OwnDecls(s, n) == {d \in Decls(s) : ToLowerCase(DeclName(d)) = n}

\* C35: for a call, without a local variable of that name, of a name that the
\* validating scope declares once and an ancestor declares too, validate() gives
\* mismatch-argument-count exactly when the number of arguments is outside the
\* bounds of the callable getCallableByName returns for the name
C35_ArgumentCountUsesNearestCallable ==
  \A s \in ScopeIds :
    CanValidate(s) =>
      \A f \in Range(files[s]) :
        LET got == OfFile(OfCode(Fresh(s).diagnostics[s], "mismatchArgumentCount"), f) IN
        \A k \in 1..Len(FunctionCalls(f)) :
          LET c == FunctionCalls(f)[k]
              n == ToLowerCase(c.name)
              r == GetCallableByName(Cur, s, c.name, 1).val
          IN  (/\ ~c.localVar
               /\ Cardinality(OwnDecls(s, n)) = 1
               /\ \E j \in DeclaringPlaces(s, n) : j > 1)
              => /\ Len(r) = 1
                 /\ r[1].scope = s
                 /\ (\E i \in 1..Len(got) : got[i].at = c.name)
                      <=> (\/ c.args < CountRequired(r[1].params)
                           \/ c.args > Len(r[1].params))

\* C36: for a call whose function scope has a variable of the callee name,
\* validate() gives neither call-to-unknown-function nor
\* mismatch-argument-count, whatever callables of that name the scope has
C36_LocalVariableCallsNotDiagnosed ==
  \A s \in ScopeIds :
    CanValidate(s) =>
      \A f \in Range(files[s]) :
        \A k \in 1..Len(FunctionCalls(f)) :
          FunctionCalls(f)[k].localVar =>
            \A i \in 1..Len(Fresh(s).diagnostics[s]) :
              LET d == Fresh(s).diagnostics[s][i] IN
              ~(/\ d.code \in {"callToUnknownFunction", "mismatchArgumentCount"}
                /\ d.file = f
                /\ d.at = FunctionCalls(f)[k].name)

\* C37: when a file is removed from the program, a descriptor scope that stays
\* and whose resolved parent is another file keeps its resolved parent and its
\* parentScope
C37_RemovalDetachesOnlyResolvedParent ==
  [][lastCall'.op = "removeFile" =>
       \A s \in ScopeIds :
         (/\ Stays(s)
          /\ s # lastCall'.file
          /\ xmlParent[s] # NoFile
          /\ xmlParent[s] # lastCall'.file)
         => /\ xmlParent'[s] = xmlParent[s]
            /\ parentScope'[s] = parentScope[s]]_vars

====
